---- MODULE Spec2Model ----
(***************************************************************************)
(* Model of the bookmark organiser: the batched reorganisation loop with   *)
(* its retry controller and the JSON snapshot (organiser.py), the folder    *)
(* tree builder (html_writer.py), the post-hoc validator (validator.py),   *)
(* the metadata enrichment (metadata.py) and the LLM pipeline that runs    *)
(* them in sequence (main.py).                                             *)
(*                                                                         *)
(* Python strings that the code strips, splits or joins are sequences of   *)
(* one-character strings, so that strip/split/join are computed, not       *)
(* assumed.  URLs and model names are only compared and stay TLA+ strings. *)
(***************************************************************************)
EXTENDS Integers, Sequences, FiniteSets, TLC

\* ------------------------------------------------------------------ bounds

\* Longest record list handed to reorganise.
MaxRecords == 2

\* Longest record list handed to build_tree.
MaxTreeRecords == 2

\* Longest original / reorganised / snapshot list handed to the validator.
MaxValRecords == 3

\* Longest record list handed to enrich_with_metadata.
MaxMetaRecords == 4

\* Longest record list written to and loaded from a snapshot.
MaxSnapRecords == 2

\* Longest JSON list a model response holds.
MaxItems == 2

\* Largest configured batch size tried (0 exercises the max(1, .) clamp).
MaxBatch == MaxRecords

\* Longest list reorganise is followed on to its end.
MaxLiveRecords == 1

\* ------------------------------------------------------- program constants

MAX_FOLDER_DEPTH == 4

max_attempts == 3

ExamplesLimit == 5

DEFAULT_MODEL == "gpt-4.1-mini"

\* metadata.py
TAG_TRIM_LIMIT == 20

SMALL_BATCH_CUTOFF == 3

\* ------------------------------------------------------------ str helpers

Min(a, b) == IF a <= b THEN a ELSE b

Max(a, b) == IF a >= b THEN a ELSE b

\* str.isspace for one character of the model's alphabet
IsSpace(c) == c = " "

\* str.lower for one character
LowerChar(c) == IF c = "A" THEN "a" ELSE IF c = "B" THEN "b" ELSE c

\* ord() of the characters the model uses
Ord(c) ==
  CASE c = " " -> 32
    [] c = "/" -> 47
    [] c = "A" -> 65
    [] c = "B" -> 66
    [] c = "a" -> 97
    [] c = "b" -> 98
    [] c = "c" -> 99
    [] c = "d" -> 100
    [] c = "e" -> 101
    [] c = "t" -> 116
    [] OTHER -> 127

RECURSIVE LStrip(_)
LStrip(s) ==
  IF s = <<>> THEN <<>>
  ELSE IF IsSpace(Head(s)) THEN LStrip(Tail(s)) ELSE s

RECURSIVE RStrip(_)
RStrip(s) ==
  IF s = <<>> THEN <<>>
  ELSE IF IsSpace(s[Len(s)]) THEN RStrip(SubSeq(s, 1, Len(s) - 1)) ELSE s

\* str.strip()
Strip(s) == RStrip(LStrip(s))

\* str.lower()
Lower(s) == [i \in 1..Len(s) |-> LowerChar(s[i])]

\* str.split("/"): always at least one (possibly empty) segment
RECURSIVE Split(_)
Split(s) ==
  IF \A i \in 1..Len(s) : s[i] # "/" THEN <<s>>
  ELSE LET i == CHOOSE k \in 1..Len(s) :
                  s[k] = "/" /\ \A j \in 1..(k - 1) : s[j] # "/"
       IN <<SubSeq(s, 1, i - 1)>> \o Split(SubSeq(s, i + 1, Len(s)))

\* "/".join(parts)
RECURSIVE Join(_)
Join(parts) ==
  IF parts = <<>> THEN <<>>
  ELSE IF Len(parts) = 1 THEN parts[1]
  ELSE parts[1] \o <<"/">> \o Join(Tail(parts))

\* [p.strip() for p in location.split("/") if p.strip()]
RECURSIVE StripNonEmpty(_)
StripNonEmpty(segs) ==
  IF segs = <<>> THEN <<>>
  ELSE LET p == Strip(Head(segs))
       IN (IF p # <<>> THEN <<p>> ELSE <<>>) \o StripNonEmpty(Tail(segs))

Segments(location) == StripNonEmpty(Split(location))

\* parts[:n]
Take(parts, n) == SubSeq(parts, 1, Min(n, Len(parts)))

\* Python's  a or b  on strings
StrOr(a, b) == IF a # <<>> THEN a ELSE b

\* Python's str < str (code point order)
RECURSIVE StrLess(_, _)
StrLess(a, b) ==
  IF b = <<>> THEN FALSE
  ELSE IF a = <<>> THEN TRUE
  ELSE IF Ord(Head(a)) # Ord(Head(b)) THEN Ord(Head(a)) < Ord(Head(b))
  ELSE StrLess(Tail(a), Tail(b))

\* All sequences over S of length lo..hi
SeqsOf(S, lo, hi) == UNION {[1..n -> S] : n \in lo..hi}

\* ------------------------------------------------------------- data model

\* models.py: BookmarkRecord with its BookmarkMetadata.tags (the only
\* metadata field the reorganisation stage writes)
Record(tb, u, lb, ta, la, tg) ==
  [title_before |-> tb, url |-> u, location_before |-> lb,
   title_after |-> ta, location_after |-> la, tags |-> tg]

\* models.py: LLMReorgEntryModel
LLMReorgEntryModel(i, ta, la, tg) ==
  [index |-> i, title_after |-> ta, location_after |-> la, tags |-> tg]

\* Records handed to reorganise: one as the parser produces it, one carrying
\* an earlier reorganisation (as loaded from a JSON snapshot).
RecordInputs ==
  { Record(<<"a">>, "https://a.example", <<"B", "/", "a">>, <<>>, <<>>, <<>>),
    Record(<<"b">>, "https://b.example", <<>>, <<"A">>, <<"c">>, <<<<"t">>>>) }

RecordLists == SeqsOf(RecordInputs, 0, MaxRecords)

\* The title / location / tags a response item may carry.
ItemBodies ==
  { [title_after |-> <<"B">>,
     location_after |-> <<" ", "b", " ", "/", "a", "/">>,
     tags |-> << <<" ", "t">>, <<" ">>, <<"a">> >>],
    [title_after |-> <<>>,
     location_after |-> <<"/">>,
     tags |-> <<>>] }

\* One element of the JSON list of a response.  isdict: it is a mapping;
\* has_index / has_location: the key is present; index_int: the index value
\* is something the int field of the schema accepts.
RawItem(d, hi, ii, i, hl, body) ==
  [isdict |-> d, has_index |-> hi, index_int |-> ii, index |-> i,
   has_location |-> hl, title_after |-> body.title_after,
   location_after |-> body.location_after, tags |-> body.tags]

ItemIndexInputs == (0 - 1)..MaxRecords

AnyBody == CHOOSE b \in ItemBodies : b.title_after # <<>>

ItemInputs ==
  { RawItem(TRUE, TRUE, TRUE, i, TRUE, b) : i \in ItemIndexInputs, b \in ItemBodies }
  \cup { RawItem(FALSE, FALSE, FALSE, 0, FALSE, AnyBody),   \* not a mapping
         RawItem(TRUE, TRUE, TRUE, 1, FALSE, AnyBody),      \* no location_after
         RawItem(TRUE, FALSE, FALSE, 0, TRUE, AnyBody),     \* no index
         RawItem(TRUE, TRUE, FALSE, 0, TRUE, AnyBody) }     \* index not an int

\* What chat.completions.create returns: a response whose first choice holds
\* a JSON list, or one of the shapes _extract_items rejects.
ListResponses ==
  {[kind |-> "list", items |-> its] : its \in SeqsOf(ItemInputs, 0, MaxItems)}

MalformedResponses ==
  {[kind |-> k, items |-> <<>>] :
     k \in {"nochoices", "nocontent", "notjson", "notlist"}}

\* An exception, by the words its lower-cased message contains
\* ("not found" / "does not exist" is one flag).
Exc(t, u, m, n) == [temperature |-> t, unsupported |-> u, model |-> m, notfound |-> n]

GenericExc == Exc(FALSE, FALSE, FALSE, FALSE)

\* What the client may raise.
ErrorInputs ==
  { GenericExc,
    Exc(TRUE, TRUE, FALSE, FALSE),
    Exc(FALSE, FALSE, TRUE, TRUE),
    Exc(TRUE, TRUE, TRUE, TRUE) }

PrimaryModel == "gpt-5"

ModelInputs == {PrimaryModel, DEFAULT_MODEL}

\* time.sleep calls, in units that keep 0.1 s apart from backoff_seconds * n
NoWait == [kind |-> "none", mult |-> 0]

Pause == [kind |-> "pause", mult |-> 0]

Backoff(n) == [kind |-> "backoff", mult |-> n]

\* failures of an attempt
NoFailure == [kind |-> "none", exc |-> GenericExc]

NoValidItems == [kind |-> "novalid", exc |-> GenericExc]

Raised(exc) == [kind |-> "exception", exc |-> exc]

\* exceptions leaving _invoke_with_retry
NoError == [type |-> "none", carries |-> NoFailure]

\* ------------------------------------------------------------------ state

VARIABLES
  \* BookmarkOrganiser instance and the list reorganise works on
  records,               \* mutable_records (the records are mutated in place)
  batch_size,            \* self._batch_size
  model,                 \* self._model
  fallback_model,        \* self._fallback_model
  supports_temperature,  \* self._supports_temperature
  \* control and locals of reorganise / _invoke_with_retry
  pc,                    \* "loop", "attempt", "merge", "done", "failed"
  start,                 \* loop variable of reorganise (0-based)
  processed,             \* len(processed); processed is records[0:processed]
  payload,               \* _build_payload(chunk, start)
  structure_context,     \* _summarise_structure(processed)
  attempt,               \* loop variable of _invoke_with_retry
  last_error,            \* "none" or "novalid" (the ValueError it holds)
  parsed,                \* the validated entries _invoke_with_retry returned
  raised,                \* the exception that left reorganise, if any
  \* history, for stating the properties
  input,                 \* the records as handed to reorganise
  pre,                   \* the records when the current batch was dispatched
  batches,               \* the payloads dispatched so far, one per batch
  calls,                 \* client invocations made for the current batch
  last_call,             \* temperature flag and model of the latest invocation
  observed,              \* the failure of the latest attempt
  wait,                  \* the sleep that followed the latest attempt
  accepted,              \* the response whose entries the retry loop returned
  corrected_on,          \* attempt of this batch that met the temperature
                         \* rejection with custom temperature enabled (0: none)
  configured             \* the batch_size argument of __init__

organiser_vars ==
  <<records, batch_size, model, fallback_model, supports_temperature, pc, start,
    processed, payload, structure_context, attempt, last_error, parsed, raised,
    input, pre, batches, calls, last_call, observed, wait, accepted,
    corrected_on, configured>>

VARIABLES
  \* build_tree (html_writer.py)
  tree_records,          \* the records argument
  tree_done,             \* records the loop has attached so far
  tree,                  \* the nodes, by their path of folder names from root
  \* validate_reorganisation (validator.py)
  original_list,         \* list(original_records)
  reorganised_records,   \* parse_bookmark_html(reorganised_path)
  json_records,          \* the file at json_records_path, or why there is none
  val_pc,                \* the check to run next, "ok" or "error"
  val_error              \* the exception validate_reorganisation raised

VARIABLES
  \* enrich_with_metadata (metadata.py)
  meta_mode,             \* mode: "all" or "only-missing"
  meta_pc,               \* "start", "inline", "pool", "done"
  meta_target,           \* target: the records, mutated in place
  meta_input,            \* the records as they were at the call
  meta_state,            \* per record: "pending", "done" (its _work returned),
                         \* "collected" (its result is in the list)
  meta_fetch,            \* per record: what its _work did
  enriched,              \* the list being built: 0 is None, k is target[k - 1]
  meta_result,           \* the list enrich_with_metadata returned
  \* write_json / load_json (organiser.py)
  snap_records,          \* the records handed to write_json
  snap_pc,               \* "write", "load", "done"
  snap_file,             \* the JSON document at path
  snap_loaded            \* the records load_json returned

VARIABLES
  \* _single_attempt from the response on (organiser.py)
  completion,            \* what chat.completions.create returned
  resp_pc,               \* "extract", "validate", "returned", "raised"
  raw_items,             \* raw_items: the mappings _extract_items returned
  obj_pos,               \* items of raw_items the loop has been through
  validated,             \* validated: the entries kept so far
  resp_error             \* the exception that left _single_attempt

VARIABLES
  \* _run_llm_pipeline (main.py)
  pipe_pc,               \* the statement to run next
  json_file,             \* the document at paths.json_path
  html_file              \* the file at paths.html_path

tree_vars == <<tree_records, tree_done, tree>>

pipeline_vars == <<pipe_pc, json_file, html_file>>

response_vars ==
  <<completion, resp_pc, raw_items, obj_pos, validated, resp_error>>

metadata_vars ==
  <<meta_mode, meta_pc, meta_target, meta_input, meta_state, meta_fetch, enriched,
    meta_result>>

snapshot_vars == <<snap_records, snap_pc, snap_file, snap_loaded>>

validator_vars ==
  <<original_list, reorganised_records, json_records, val_pc, val_error>>

vars ==
  <<organiser_vars, tree_vars, validator_vars, metadata_vars, snapshot_vars,
    response_vars, pipeline_vars>>

NoResponse == [kind |-> "none", items |-> <<>>]

NoCall == [made |-> FALSE, temperature |-> FALSE, model |-> ""]

\* ------------------------------------------------- organiser.py operators

\* _extract_items raises (missing choices, empty content, invalid JSON, or a
\* root that is not a list); its messages hold none of the words
\* _process_exception looks for
extract_items_raises(response) == response.kind # "list"

\* _extract_items: the mappings of the list, in order
extract_items(response) == SelectSeq(response.items, LAMBDA it : it.isdict)

\* the depth normalisation of _validate_item: a location that is blank after
\* strip() is left as it is
normalise_location(location_after) ==
  IF Strip(location_after) # <<>>
  THEN Join(Take(Segments(Strip(location_after)), MAX_FOLDER_DEPTH))
  ELSE location_after

\* LLMReorgEntryModel._clean_tags
clean_tags(value) == [i \in 1..Len(value) |-> Strip(value[i])]

\* _validate_item: <<>> for None, <<entry>> for a validated entry
validate_item(obj) ==
  IF ~obj.has_index \/ ~obj.has_location THEN <<>>
  ELSE IF ~obj.index_int THEN <<>>
  ELSE << LLMReorgEntryModel(obj.index, obj.title_after,
                             normalise_location(obj.location_after),
                             clean_tags(obj.tags)) >>

\* the validation loop of _single_attempt
RECURSIVE validate_all(_)
validate_all(objs) ==
  IF objs = <<>> THEN <<>>
  ELSE validate_item(Head(objs)) \o validate_all(Tail(objs))

single_attempt(response) == validate_all(extract_items(response))

\* single_attempt over every list response, evaluated once
validated_of == [response \in ListResponses |-> single_attempt(response)]

\* Mutant of build_payload: the index is the offset in the chunk.
build_payload_chunk_offsets(chunk, start_index) ==
  [offset \in 1..Len(chunk) |->
     [index |-> offset - 1,
      title_before |-> chunk[offset].title_before,
      url |-> chunk[offset].url,
      location_before |-> chunk[offset].location_before,
      tags |-> chunk[offset].tags]]

\* _build_payload, without the metadata title and description it copies
build_payload(chunk, start_index) ==
  [offset \in 1..Len(chunk) |->
     [index |-> start_index + (offset - 1),
      title_before |-> chunk[offset].title_before,
      url |-> chunk[offset].url,
      location_before |-> chunk[offset].location_before,
      tags |-> chunk[offset].tags]]

\* the folders dict of _summarise_structure: paths in insertion order, each
\* with the titles appended to it
RECURSIVE folders_of(_)
folders_of(recs) ==
  IF recs = <<>> THEN <<>>
  ELSE
    LET before == folders_of(SubSeq(recs, 1, Len(recs) - 1))
        record == recs[Len(recs)]
        location == Strip(record.location_after)
        representative_title == StrOr(Strip(record.title_after), record.title_before)
    IN IF location = <<>> \/ representative_title = <<>> THEN before
       ELSE IF \E k \in 1..Len(before) : before[k].path = location
       THEN [k \in 1..Len(before) |->
               IF before[k].path = location
               THEN [before[k] EXCEPT !.titles = @ \o <<representative_title>>]
               ELSE before[k]]
       ELSE before \o <<[path |-> location, titles |-> <<representative_title>>]>>

\* sorted(summary, key=lower-cased path): stable insertion sort
RECURSIVE sorted_by_path(_)
sorted_by_path(summary) ==
  IF summary = <<>> THEN <<>>
  ELSE
    LET done == sorted_by_path(SubSeq(summary, 1, Len(summary) - 1))
        item == summary[Len(summary)]
        keep == {k \in 1..Len(done) :
                   ~StrLess(Lower(item.path), Lower(done[k].path))}
        n == Cardinality(keep)
    IN SubSeq(done, 1, n) \o <<item>> \o SubSeq(done, n + 1, Len(done))

\* _summarise_structure
summarise_structure(recs) ==
  LET folders == folders_of(recs)
      summary == [k \in 1..Len(folders) |->
                    [path |-> folders[k].path,
                     count |-> Len(folders[k].titles),
                     examples |-> Take(folders[k].titles, ExamplesLimit)]]
  IN sorted_by_path(summary)

\* index_map = {item.index: item for item in parsed}: the last item wins
RECURSIVE index_map(_)
index_map(items) ==
  IF items = <<>> THEN <<>>
  ELSE LET m == index_map(SubSeq(items, 1, Len(items) - 1))
           item == items[Len(items)]
       IN [k \in (DOMAIN m) \cup {item.index} |->
             IF k = item.index THEN item ELSE m[k]]

\* tags_list = [str(tag).strip() for tag in entry.tags if str(tag).strip()]
tags_list(tags) == StripNonEmpty(tags)

\* Mutant of merge_entry: the new title is also written to title_before.
merge_entry_overwrites_before(record, entry) ==
  [record EXCEPT
     !.title_before = StrOr(entry.title_after, record.title_before),
     !.title_after = StrOr(entry.title_after, record.title_before),
     !.location_after = StrOr(entry.location_after, record.location_before),
     !.tags = tags_list(entry.tags)]

\* Mutant of merge_entry: the new tags are appended to the old ones.
merge_entry_extends_tags(record, entry) ==
  [record EXCEPT
     !.title_after = StrOr(entry.title_after, record.title_before),
     !.location_after = StrOr(entry.location_after, record.location_before),
     !.tags = record.tags \o tags_list(entry.tags)]

\* the three assignments of the merge loop of reorganise
merge_entry(record, entry) ==
  [record EXCEPT
     !.title_after = StrOr(entry.title_after, record.title_before),
     !.location_after = StrOr(entry.location_after, record.location_before),
     !.tags = tags_list(entry.tags)]

\* Mutant of merge_chunk: a record of the chunk without an entry falls back
\* to its "before" values.
merge_chunk_resets_missing(recs, entries, lo, hi) ==
  LET m == index_map(entries)
  IN [i \in 1..Len(recs) |->
        IF i > lo /\ i <= hi
        THEN IF (i - 1) \in DOMAIN m
             THEN merge_entry(recs[i], m[i - 1])
             ELSE [recs[i] EXCEPT !.title_after = recs[i].title_before,
                                  !.location_after = recs[i].location_before]
        ELSE recs[i]]

\* Mutant of merge_chunk: an entry is applied to the record its index names,
\* wherever in the list that record is.
merge_chunk_any_position(recs, entries, lo, hi) ==
  LET m == index_map(entries)
  IN [i \in 1..Len(recs) |->
        IF (i - 1) \in DOMAIN m
        THEN merge_entry(recs[i], m[i - 1])
        ELSE recs[i]]

\* the merge loop of reorganise over the chunk at positions lo+1..hi (1-based)
merge_chunk(recs, entries, lo, hi) ==
  LET m == index_map(entries)
  IN [i \in 1..Len(recs) |->
        IF i > lo /\ i <= hi /\ (i - 1) \in DOMAIN m
        THEN merge_entry(recs[i], m[i - 1])
        ELSE recs[i]]

\* Mutant of process_exception: the temperature rejection is retried at once
\* but the flag is left enabled.
process_exception_keeps_temperature(exc, att) ==
  IF supports_temperature /\ exc.temperature /\ exc.unsupported
  THEN [continue |-> TRUE, supports_temperature |-> TRUE, model |-> model,
        slept |-> Pause]
  ELSE IF att = 1 /\ fallback_model # model /\ exc.model /\ exc.notfound
  THEN [continue |-> TRUE, supports_temperature |-> supports_temperature,
        model |-> fallback_model, slept |-> Backoff(att)]
  ELSE [continue |-> FALSE, supports_temperature |-> supports_temperature,
        model |-> model, slept |-> NoWait]

\* Mutant of process_exception: an unavailable model is never replaced.
process_exception_never_switches(exc, att) ==
  IF supports_temperature /\ exc.temperature /\ exc.unsupported
  THEN [continue |-> TRUE, supports_temperature |-> FALSE, model |-> model,
        slept |-> Pause]
  ELSE [continue |-> FALSE, supports_temperature |-> supports_temperature,
        model |-> model, slept |-> NoWait]

\* Mutant of process_exception: the fallback is taken on any attempt.
process_exception_switches_later(exc, att) ==
  IF supports_temperature /\ exc.temperature /\ exc.unsupported
  THEN [continue |-> TRUE, supports_temperature |-> FALSE, model |-> model,
        slept |-> Pause]
  ELSE IF fallback_model # model /\ exc.model /\ exc.notfound
  THEN [continue |-> TRUE, supports_temperature |-> supports_temperature,
        model |-> fallback_model, slept |-> Backoff(att)]
  ELSE [continue |-> FALSE, supports_temperature |-> supports_temperature,
        model |-> model, slept |-> NoWait]

\* Mutant of process_exception: a temperature correction sleeps the scaled
\* backoff instead of the fixed pause.
process_exception_backs_off_on_correction(exc, att) ==
  IF supports_temperature /\ exc.temperature /\ exc.unsupported
  THEN [continue |-> TRUE, supports_temperature |-> FALSE, model |-> model,
        slept |-> Backoff(att)]
  ELSE IF att = 1 /\ fallback_model # model /\ exc.model /\ exc.notfound
  THEN [continue |-> TRUE, supports_temperature |-> supports_temperature,
        model |-> fallback_model, slept |-> Backoff(att)]
  ELSE [continue |-> FALSE, supports_temperature |-> supports_temperature,
        model |-> model, slept |-> NoWait]

\* _process_exception: whether the caller continues at once, the instance
\* state it leaves, and the sleep it makes
process_exception(exc, att) ==
  IF supports_temperature /\ exc.temperature /\ exc.unsupported
  THEN [continue |-> TRUE, supports_temperature |-> FALSE, model |-> model,
        slept |-> Pause]
  ELSE IF att = 1 /\ fallback_model # model /\ exc.model /\ exc.notfound
  THEN [continue |-> TRUE, supports_temperature |-> supports_temperature,
        model |-> fallback_model, slept |-> Backoff(att)]
  ELSE [continue |-> FALSE, supports_temperature |-> supports_temperature,
        model |-> model, slept |-> NoWait]

\* the end of _invoke_with_retry once the loop is exhausted
terminal_error(le) ==
  IF le # "none"
  THEN [type |-> "ValueError", carries |-> NoValidItems]
  ELSE [type |-> "LLMInvocationError", carries |-> NoFailure]

\* Mutant of create_call: the temperature argument is always passed.
create_call_with_temperature ==
  [made |-> TRUE, temperature |-> TRUE, model |-> model]

\* the arguments of chat.completions.create in _single_attempt
create_call ==
  [made |-> TRUE, temperature |-> supports_temperature, model |-> model]

\* ------------------------------------------------ reorganise: the actions

\* 0-based end (exclusive) of the chunk  mutable_records[start : start + B]
chunk_end == Min(start + batch_size, Len(records))

\* chunk = mutable_records[start : start + self._batch_size]
chunk_of(recs) == SubSeq(recs, start + 1, chunk_end)

\* Mutant of processed_records: the whole list is summarised.
all_records == records

\* the list  processed  of reorganise: the chunks merged so far
processed_records == SubSeq(records, 1, processed)

\* BookmarkOrganiser.__init__ and the first two lines of reorganise
OrganiserInit ==
  /\ records \in RecordLists
  /\ input = records
  /\ configured \in 0..MaxBatch
  /\ batch_size = Max(1, configured)
  /\ model = PrimaryModel
  /\ fallback_model \in ModelInputs
  /\ supports_temperature = TRUE
  /\ pc = "loop"
  /\ start = 0
  /\ processed = 0
  /\ payload = <<>>
  /\ structure_context = <<>>
  /\ attempt = 0
  /\ last_error = "none"
  /\ parsed = <<>>
  /\ raised = NoError
  /\ pre = records
  /\ batches = <<>>
  /\ calls = 0
  /\ last_call = NoCall
  /\ observed = NoFailure
  /\ wait = NoWait
  /\ accepted = NoResponse
  /\ corrected_on = 0

\* One iteration of the batch loop up to the call of _invoke_with_retry:
\* slice the chunk, build its payload, summarise the processed records.
StartBatch ==
  /\ pc = "loop"
  /\ start < Len(records)
  /\ payload' = build_payload(chunk_of(records), start)
  /\ structure_context' = summarise_structure(processed_records)
  /\ batches' = Append(batches, payload')
  /\ pre' = records
  /\ pc' = "attempt"
  /\ attempt' = 1
  /\ last_error' = "none"
  /\ parsed' = <<>>
  /\ calls' = 0
  /\ last_call' = NoCall
  /\ observed' = NoFailure
  /\ wait' = NoWait
  /\ accepted' = NoResponse
  /\ corrected_on' = 0
  /\ UNCHANGED <<records, batch_size, model, fallback_model, supports_temperature,
                 start, processed, raised, input, configured>>
  /\ UNCHANGED <<tree_vars, validator_vars, metadata_vars, snapshot_vars,
                 response_vars, pipeline_vars>>

\* Mutant of NextAttempt: the loop goes on to a further attempt however many
\* were made.
NextAttemptNeverGivesUp(le) ==
  /\ attempt' = attempt + 1
  /\ pc' = "attempt"
  /\ raised' = raised

\* The retry loop moves on after a failed attempt: the next attempt, or,
\* after max_attempts, the raise that ends _invoke_with_retry and reorganise.
NextAttempt(le) ==
  IF attempt < max_attempts
  THEN /\ attempt' = attempt + 1
       /\ pc' = "attempt"
       /\ raised' = raised
  ELSE /\ attempt' = attempt
       /\ pc' = "failed"
       /\ raised' = terminal_error(le)

\* An attempt in which _single_attempt raises exc: the except branch.
AttemptRaises(exc) ==
  LET r == process_exception(exc, attempt)
  IN /\ calls' = calls + 1
     /\ last_call' = create_call
     /\ observed' = Raised(exc)
     /\ supports_temperature' = r.supports_temperature
     /\ model' = r.model
     /\ wait' = IF r.continue THEN r.slept ELSE Backoff(attempt)
     /\ last_error' = last_error
     /\ corrected_on' =
          IF supports_temperature /\ exc.temperature /\ exc.unsupported
          THEN attempt ELSE corrected_on
     /\ NextAttempt(last_error)
     /\ UNCHANGED <<records, batch_size, fallback_model, start, processed, payload,
                    structure_context, parsed, input, pre, batches, accepted,
                    configured>>
     /\ UNCHANGED <<tree_vars, validator_vars, metadata_vars, snapshot_vars,
                    response_vars, pipeline_vars>>

\* The client raises.
ClientRaises ==
  /\ pc = "attempt"
  /\ \E exc \in ErrorInputs : AttemptRaises(exc)

\* The client returns something _extract_items rejects.
ResponseMalformed ==
  /\ pc = "attempt"
  /\ \E response \in MalformedResponses :
       /\ extract_items_raises(response)
       /\ AttemptRaises(GenericExc)

\* The client returns a JSON list of which no item validates.
ResponseNoValid ==
  /\ pc = "attempt"
  /\ \E response \in ListResponses :
       /\ ~extract_items_raises(response)
       /\ validated_of[response] = <<>>
       /\ calls' = calls + 1
       /\ last_call' = create_call
       /\ observed' = NoValidItems
       /\ wait' = NoWait
       /\ last_error' = "novalid"
       /\ NextAttempt("novalid")
       /\ UNCHANGED <<records, batch_size, model, fallback_model,
                      supports_temperature, start, processed, payload,
                      structure_context, parsed, input, pre, batches, accepted,
                      corrected_on, configured>>
       /\ UNCHANGED <<tree_vars, validator_vars, metadata_vars, snapshot_vars,
                      response_vars, pipeline_vars>>

\* Mutant of ResponseValid: the loop does not return on success but goes on
\* to the next attempt while one is left.
ResponseValidContinues ==
  /\ pc = "attempt"
  /\ \E response \in ListResponses :
       /\ ~extract_items_raises(response)
       /\ validated_of[response] # <<>>
       /\ parsed' = validated_of[response]
       /\ accepted' = response
       /\ calls' = calls + 1
       /\ last_call' = create_call
       /\ observed' = NoFailure
       /\ wait' = NoWait
       /\ last_error' = "none"
       /\ pc' = IF attempt < max_attempts THEN "attempt" ELSE "merge"
       /\ attempt' = IF attempt < max_attempts THEN attempt + 1 ELSE attempt
       /\ UNCHANGED <<records, batch_size, model, fallback_model,
                      supports_temperature, start, processed, payload,
                      structure_context, raised, input, pre, batches,
                      corrected_on, configured>>
       /\ UNCHANGED <<tree_vars, validator_vars, metadata_vars, snapshot_vars,
                      response_vars, pipeline_vars>>

\* The client returns a JSON list with at least one valid item:
\* _invoke_with_retry returns the validated entries.
ResponseValid ==
  /\ pc = "attempt"
  /\ \E response \in ListResponses :
       /\ ~extract_items_raises(response)
       /\ validated_of[response] # <<>>
       /\ parsed' = validated_of[response]
       /\ accepted' = response
       /\ calls' = calls + 1
       /\ last_call' = create_call
       /\ observed' = NoFailure
       /\ wait' = NoWait
       /\ last_error' = "none"
       /\ pc' = "merge"
       /\ UNCHANGED <<records, batch_size, model, fallback_model,
                      supports_temperature, start, processed, payload,
                      structure_context, attempt, raised, input, pre, batches,
                      corrected_on, configured>>
       /\ UNCHANGED <<tree_vars, validator_vars, metadata_vars, snapshot_vars,
                      response_vars, pipeline_vars>>

\* The merge loop over the chunk, processed.extend(chunk), and the step of
\* range(0, len(mutable_records), batch_size).
Merge ==
  /\ pc = "merge"
  /\ records' = merge_chunk(records, parsed, start, chunk_end)
  /\ processed' = processed + Len(chunk_of(records))
  /\ start' = start + batch_size
  /\ pc' = "loop"
  /\ UNCHANGED <<batch_size, model, fallback_model, supports_temperature, payload,
                 structure_context, attempt, last_error, parsed, raised, input,
                 pre, batches, calls, last_call, observed, wait, accepted,
                 corrected_on, configured>>
  /\ UNCHANGED <<tree_vars, validator_vars, metadata_vars, snapshot_vars,
                 response_vars, pipeline_vars>>

\* return mutable_records: the locals of reorganise are gone, and so is the
\* history of the last batch
Return ==
  /\ pc = "loop"
  /\ start >= Len(records)
  /\ pc' = "done"
  /\ payload' = <<>>
  /\ structure_context' = <<>>
  /\ attempt' = 0
  /\ last_error' = "none"
  /\ parsed' = <<>>
  /\ pre' = records
  /\ calls' = 0
  /\ last_call' = NoCall
  /\ observed' = NoFailure
  /\ wait' = NoWait
  /\ accepted' = NoResponse
  /\ corrected_on' = 0
  /\ UNCHANGED <<records, batch_size, model, fallback_model, supports_temperature,
                 start, processed, raised, input, batches, configured>>
  /\ UNCHANGED <<tree_vars, validator_vars, metadata_vars, snapshot_vars,
                 response_vars, pipeline_vars>>

\* No organiser is at work (the state of these variables while build_tree or
\* the validator is looked at on its own).
OrganiserIdle ==
  /\ records = <<>>
  /\ input = <<>>
  /\ configured = 1
  /\ batch_size = 1
  /\ model = PrimaryModel
  /\ fallback_model = DEFAULT_MODEL
  /\ supports_temperature = TRUE
  /\ pc = "idle"
  /\ start = 0
  /\ processed = 0
  /\ payload = <<>>
  /\ structure_context = <<>>
  /\ attempt = 0
  /\ last_error = "none"
  /\ parsed = <<>>
  /\ raised = NoError
  /\ pre = <<>>
  /\ batches = <<>>
  /\ calls = 0
  /\ last_call = NoCall
  /\ observed = NoFailure
  /\ wait = NoWait
  /\ accepted = NoResponse
  /\ corrected_on = 0

\* ---------------------------------------------------- html_writer.py

Unsorted == <<"U", "n", "s", "o", "r", "t", "e", "d">>

\* BookmarkTreeNode.__init__
BookmarkTreeNode(name) == [name |-> name, children |-> <<>>, bookmarks |-> <<>>]

\* root = BookmarkTreeNode(name="Bookmarks Bar"), at the empty path
RootNode == BookmarkTreeNode(<<"Bookmarks Bar">>)

\* Mutant of tree_parts: the depth limit is not applied.
tree_parts_untruncated(record) ==
  LET location == StrOr(record.location_after, record.location_before)
      parts == Segments(location)
  IN IF parts = <<>> THEN <<Unsorted>> ELSE parts

\* the folder names build_tree walks for a record
tree_parts(record) ==
  LET location == StrOr(record.location_after, record.location_before)
      parts == Segments(location)
      named == IF parts = <<>> THEN <<Unsorted>> ELSE parts
  IN IF Len(named) > MAX_FOLDER_DEPTH THEN Take(named, MAX_FOLDER_DEPTH) ELSE named

\* Mutant of get_or_create_child: a child is created whether or not one of
\* that name exists.
get_or_create_child_always_creates(t, path, child_name) ==
  [q \in (DOMAIN t) \cup {Append(path, child_name)} |->
     IF q = path THEN [t[path] EXCEPT !.children = Append(@, child_name)]
     ELSE IF q = Append(path, child_name) THEN BookmarkTreeNode(child_name)
     ELSE t[q]]

\* BookmarkTreeNode.get_or_create_child on the node at path: the tree after
\* the call (the child is the node at Append(path, child_name))
get_or_create_child(t, path, child_name) ==
  IF \E c \in 1..Len(t[path].children) : t[path].children[c] = child_name
  THEN t
  ELSE [q \in (DOMAIN t) \cup {Append(path, child_name)} |->
          IF q = path THEN [t[path] EXCEPT !.children = Append(@, child_name)]
          ELSE IF q = Append(path, child_name) THEN BookmarkTreeNode(child_name)
          ELSE t[q]]

\* the walk  for part in parts: node = node.get_or_create_child(part)
RECURSIVE walk(_, _, _)
walk(t, path, parts) ==
  IF parts = <<>> THEN t
  ELSE walk(get_or_create_child(t, path, Head(parts)),
            Append(path, Head(parts)), Tail(parts))

\* BookmarkTreeNode.add_bookmark on the node at path; the record is held by
\* reference, here by its position in the list
add_bookmark(t, path, position) ==
  [t EXCEPT ![path].bookmarks = Append(@, position)]

\* Locations build_tree is tried on: deeper than the limit, untrimmed with
\* empty segments, only in location_before, none at all, and blank.
TreeRecordInputs ==
  { Record(<<"a">>, "https://a.example",
           <<"a">>,
           <<>>,
           <<"a", "/", "b", "/", "c", "/", "d", "/", "e", "/", "a">>, <<>>),
    Record(<<"a">>, "https://a.example",
           <<>>,
           <<>>,
           <<" ", "a", " ", "/", "/", "b", " ">>, <<>>),
    Record(<<"b">>, "https://b.example",
           <<"a", "/", "b", "/", "c", "/", "d", "/", "e">>,
           <<>>, <<>>, <<>>),
    Record(<<"b">>, "https://b.example", <<>>, <<>>, <<>>, <<>>),
    Record(<<"a">>, "https://a.example", <<"a">>, <<>>, <<" ">>, <<>>),
    Record(<<"b">>, "https://b.example", <<" ", "/">>, <<>>, <<>>, <<>>) }

\* build_tree is called: root is created
TreeInit ==
  /\ tree_records \in SeqsOf(TreeRecordInputs, 0, MaxTreeRecords)
  /\ tree_done = 0
  /\ tree = [q \in {<<>>} |-> RootNode]

TreeIdle ==
  /\ tree_records = <<>>
  /\ tree_done = 0
  /\ tree = [q \in {<<>>} |-> RootNode]

\* One iteration of the loop of build_tree.
AttachRecord ==
  /\ tree_done < Len(tree_records)
  /\ LET position == tree_done + 1
         parts == tree_parts(tree_records[position])
     IN tree' = add_bookmark(walk(tree, <<>>, parts), parts, position)
  /\ tree_done' = tree_done + 1
  /\ UNCHANGED tree_records
  /\ UNCHANGED <<organiser_vars, validator_vars, metadata_vars, snapshot_vars,
                 response_vars, pipeline_vars>>

\* -------------------------------------------------------- validator.py

\* Mutant of Counter: every URL present counts once.
CounterOfSet(urls) == [u \in {urls[i] : i \in 1..Len(urls)} |-> 1]

\* collections.Counter(iterable): a count for each element that occurs
RECURSIVE Counter(_)
Counter(urls) ==
  IF urls = <<>> THEN <<>>
  ELSE LET c == Counter(SubSeq(urls, 1, Len(urls) - 1))
           u == urls[Len(urls)]
       IN [k \in (DOMAIN c) \cup {u} |->
             IF k = u THEN (IF u \in DOMAIN c THEN c[u] + 1 ELSE 1) ELSE c[k]]

\* Counter.__sub__: only the positive differences are kept
CounterSub(a, b) ==
  LET diff(k) == a[k] - (IF k \in DOMAIN b THEN b[k] ELSE 0)
  IN [k \in {x \in DOMAIN a : diff(x) > 0} |-> diff(k)]

UrlsOf(recs) == [i \in 1..Len(recs) |-> recs[i].url]

NoValError == [type |-> "none", missing |-> <<>>, extra |-> <<>>]

ValueError(t) == [type |-> t, missing |-> <<>>, extra |-> <<>>]

\* Mutant of assert_counts: the lengths are not compared.
assert_counts_skipped(original, reorganised) == NoValError

\* _assert_counts: the error it raises, or NoValError
assert_counts(original, reorganised) ==
  IF Len(original) # Len(reorganised) THEN ValueError("CountMismatch")
  ELSE NoValError

\* _assert_url_multiset: the error it raises, or NoValError
assert_url_multiset(original, reorganised) ==
  LET original_urls == Counter(UrlsOf(original))
      new_urls == Counter(UrlsOf(reorganised))
  IN IF original_urls # new_urls
     THEN [type |-> "UrlMismatch",
           missing |-> CounterSub(original_urls, new_urls),
           extra |-> CounterSub(new_urls, original_urls)]
     ELSE NoValError

\* Mutant of assert_locations: location_before is not looked at.
assert_locations_after_only(reorganised) ==
  IF \E i \in 1..Len(reorganised) : Strip(reorganised[i].location_after) = <<>>
  THEN ValueError("EmptyLocation") ELSE NoValError

\* _assert_locations: the error it raises, or NoValError
assert_locations(reorganised) ==
  LET empty_locations ==
        SelectSeq(reorganised,
                  LAMBDA r : Strip(r.location_after) = <<>>
                             /\ Strip(r.location_before) = <<>>)
  IN IF empty_locations # <<>> THEN ValueError("EmptyLocation") ELSE NoValError

\* _assert_json_consistency: a file that does not validate as a list of
\* entries raises the "Invalid JSON bookmark records file" ValueError; for a
\* file that does, the next statement reads list_model.__root__, an attribute
\* a RootModel instance does not have, and the AttributeError leaves the
\* function before its length and URL comparisons
assert_json_consistency(snapshot, reorganised) ==
  IF snapshot.state = "invalid" THEN ValueError("InvalidSnapshot")
  ELSE ValueError("AttributeError")

ValUrlInputs == {"https://one.example", "https://two.example"}

\* records the original export parses to
OriginalInputs == {Record(<<"a">>, u, <<"a">>, <<>>, <<>>, <<>>) : u \in ValUrlInputs}

\* records the reorganised HTML parses to (title, URL, enclosing folders)
ReorganisedInputs ==
  {Record(<<"a">>, u, lb, <<>>, <<>>, <<>>) :
     u \in ValUrlInputs, lb \in {<<>>, <<"b", "/", "a">>}}

\* json_records_path: not given, given but no such file, a file that is not
\* a list of entries, or a file holding entries with these URLs
JsonInputs ==
  { [state |-> "nopath", urls |-> <<>>],
    [state |-> "nofile", urls |-> <<>>],
    [state |-> "invalid", urls |-> <<>>] }
  \cup {[state |-> "entries", urls |-> us] : us \in SeqsOf(ValUrlInputs, 0, MaxValRecords)}

\* validate_reorganisation is called and has parsed the reorganised HTML
ValidatorInit ==
  /\ original_list \in SeqsOf(OriginalInputs, 0, MaxValRecords)
  /\ reorganised_records \in SeqsOf(ReorganisedInputs, 0, MaxValRecords)
  /\ json_records \in JsonInputs
  /\ val_pc = "counts"
  /\ val_error = NoValError

ValidatorIdle ==
  /\ original_list = <<>>
  /\ reorganised_records = <<>>
  /\ json_records = [state |-> "nopath", urls |-> <<>>]
  /\ val_pc = "idle"
  /\ val_error = NoValError

\* one check of validate_reorganisation: its error ends the call, else the
\* next check runs
RunCheck(error, next) ==
  /\ val_error' = error
  /\ val_pc' = IF error # NoValError THEN "error" ELSE next
  /\ UNCHANGED <<original_list, reorganised_records, json_records>>
  /\ UNCHANGED <<organiser_vars, tree_vars, metadata_vars, snapshot_vars,
                 response_vars, pipeline_vars>>

AssertCounts ==
  /\ val_pc = "counts"
  /\ RunCheck(assert_counts(original_list, reorganised_records), "urls")

AssertUrlMultiset ==
  /\ val_pc = "urls"
  /\ RunCheck(assert_url_multiset(original_list, reorganised_records), "locations")

AssertLocations ==
  /\ val_pc = "locations"
  /\ RunCheck(assert_locations(reorganised_records), "json")

\* if json_records_path and json_records_path.exists(): ...
AssertJsonConsistency ==
  /\ val_pc = "json"
  /\ json_records.state \in {"invalid", "entries"}
  /\ RunCheck(assert_json_consistency(json_records, reorganised_records), "ok")

\* no snapshot to compare with: validation ends successfully
SkipJsonConsistency ==
  /\ val_pc = "json"
  /\ json_records.state \in {"nopath", "nofile"}
  /\ RunCheck(NoValError, "ok")

\* --------------------------------------------------------- metadata.py

\* BookmarkMetadata
BookmarkMetadata(t, d, tg) == [title |-> t, description |-> d, tags |-> tg]

\* What fetching a URL gives: no usable response (_request_with_fallback
\* returns None, or the content is not HTML), an exception inside
\* _populate_single_record, or a page, given by the unescaped title and
\* description found in it and by the comma-separated parts of its keywords
\* content (has_keywords: the meta element is there).
Page(t, d, hk, kw) ==
  [kind |-> "page", title |-> t, description |-> d, has_keywords |-> hk,
   keywords |-> kw]

NoPage(k) ==
  [kind |-> k, title |-> <<>>, description |-> <<>>, has_keywords |-> FALSE,
   keywords |-> <<>>]

\* the web, as session.get sees it
fetch(url) ==
  CASE url = "https://one.example" ->
         Page(<<"p">>, <<"d">>, TRUE, << <<" ", "k">>, <<" ">>, <<"a">> >>)
    [] url = "https://two.example" -> NoPage("unreachable")
    [] url = "https://three.example" -> NoPage("raises")
    [] OTHER -> Page(<<"p">>, <<>>, FALSE, <<>>)

\* a record, by its URL and metadata
MetaRecord(u, md) == [url |-> u, metadata |-> md]

\* records handed to enrich_with_metadata: without metadata (freshly
\* parsed), with tags only, with a title only (taken over from a cache)
MetaRecordInputs ==
  { MetaRecord("https://one.example", BookmarkMetadata(<<>>, <<>>, <<>>)),
    MetaRecord("https://two.example", BookmarkMetadata(<<>>, <<>>, <<>>)),
    MetaRecord("https://three.example", BookmarkMetadata(<<>>, <<>>, << <<"t">> >>)),
    MetaRecord("https://four.example", BookmarkMetadata(<<"o">>, <<>>, <<>>)) }

ModeInputs == {"all", "only-missing"}

\* Mutant of should_skip: tags alone do not count as existing metadata.
should_skip_ignores_tags(r, mode) ==
  IF mode = "all" THEN FALSE
  ELSE r.metadata.title # <<>> \/ r.metadata.description # <<>>

\* _should_skip
should_skip(r, mode) ==
  IF mode = "all" THEN FALSE
  ELSE \/ r.metadata.title # <<>>
       \/ r.metadata.description # <<>>
       \/ r.metadata.tags # <<>>

\* _populate_single_record: the metadata of the record afterwards; each part
\* found in the page replaces the record's
populate_single_record(r) ==
  LET page == fetch(r.url)
      md == r.metadata
  IN IF page.kind # "page" THEN md
     ELSE [title |-> IF page.title # <<>> THEN page.title ELSE md.title,
           description |->
             IF page.description # <<>> THEN page.description
             ELSE md.description,
           tags |->
             IF page.has_keywords
             THEN LET raw_tags == StripNonEmpty(page.keywords)
                  IN Take(raw_tags, Min(Len(raw_tags), TAG_TRIM_LIMIT))
             ELSE md.tags]

\* _work: the record afterwards and what was done
work(r, mode) ==
  IF should_skip(r, mode) THEN [record |-> r, did |-> "skipped"]
  ELSE [record |-> [r EXCEPT !.metadata = populate_single_record(r)],
        did |-> fetch(r.url).kind]

\* enrich_with_metadata is called: target = list(records)
MetadataInit ==
  /\ meta_mode \in ModeInputs
  /\ meta_target \in SeqsOf(MetaRecordInputs, 0, MaxMetaRecords)
  /\ meta_input = meta_target
  /\ meta_pc = "start"
  /\ meta_state = [i \in 1..Len(meta_target) |-> "pending"]
  /\ meta_fetch = [i \in 1..Len(meta_target) |-> "none"]
  /\ enriched = <<>>
  /\ meta_result = <<>>

MetadataIdle ==
  /\ meta_mode = "all"
  /\ meta_target = <<>>
  /\ meta_input = <<>>
  /\ meta_pc = "idle"
  /\ meta_state = <<>>
  /\ meta_fetch = <<>>
  /\ enriched = <<>>
  /\ meta_result = <<>>

\* if len(target) <= _SMALL_BATCH_CUTOFF: the list comprehension; otherwise
\* enriched = [None] * len(target) and every record is submitted to the pool
StartEnrich ==
  /\ meta_pc = "start"
  /\ IF Len(meta_target) <= SMALL_BATCH_CUTOFF
     THEN meta_pc' = "inline" /\ enriched' = <<>>
     ELSE meta_pc' = "pool" /\ enriched' = [i \in 1..Len(meta_target) |-> 0]
  /\ UNCHANGED <<meta_mode, meta_target, meta_input, meta_state, meta_fetch,
                 meta_result>>
  /\ UNCHANGED <<organiser_vars, tree_vars, validator_vars, snapshot_vars,
                 response_vars, pipeline_vars>>

\* _work(r) on the record at position i
RunWork(i) ==
  LET w == work(meta_target[i], meta_mode)
  IN /\ meta_target' = [meta_target EXCEPT ![i] = w.record]
     /\ meta_fetch' = [meta_fetch EXCEPT ![i] = w.did]

\* [_work(r) for r in target]: the next element of the comprehension
WorkInline ==
  /\ meta_pc = "inline"
  /\ Len(enriched) < Len(meta_target)
  /\ LET i == Len(enriched) + 1
     IN /\ RunWork(i)
        /\ meta_state' = [meta_state EXCEPT ![i] = "collected"]
        /\ enriched' = Append(enriched, i)
  /\ UNCHANGED <<meta_mode, meta_pc, meta_input, meta_result>>
  /\ UNCHANGED <<organiser_vars, tree_vars, validator_vars, snapshot_vars,
                 response_vars, pipeline_vars>>

\* A pool thread runs _work for one submitted record; the threads finish in
\* any order.
Work ==
  /\ meta_pc = "pool"
  /\ \E i \in 1..Len(meta_target) :
       /\ meta_state[i] = "pending"
       /\ RunWork(i)
       /\ meta_state' = [meta_state EXCEPT ![i] = "done"]
  /\ UNCHANGED <<meta_mode, meta_pc, meta_input, enriched, meta_result>>
  /\ UNCHANGED <<organiser_vars, tree_vars, validator_vars, snapshot_vars,
                 response_vars, pipeline_vars>>

\* Mutant of collect_result: results are appended as they complete.
collect_result_appends(done, i) ==
  LET filled == SelectSeq(done, LAMBDA x : x # 0)
  IN [k \in 1..Len(done) |->
        IF k <= Len(filled) THEN filled[k]
        ELSE IF k = Len(filled) + 1 THEN i ELSE 0]

\* enriched[idx] = future.result(), idx = future_map[future]
collect_result(done, i) == [done EXCEPT ![i] = i]

\* as_completed yields a finished future
Collect ==
  /\ meta_pc = "pool"
  /\ \E i \in 1..Len(meta_target) :
       /\ meta_state[i] = "done"
       /\ enriched' = collect_result(enriched, i)
       /\ meta_state' = [meta_state EXCEPT ![i] = "collected"]
  /\ UNCHANGED <<meta_mode, meta_pc, meta_target, meta_input, meta_fetch,
                 meta_result>>
  /\ UNCHANGED <<organiser_vars, tree_vars, validator_vars, snapshot_vars,
                 response_vars, pipeline_vars>>

\* return [...] / return list(enriched)
ReturnEnriched ==
  /\ meta_pc \in {"inline", "pool"}
  /\ \A i \in 1..Len(meta_target) : meta_state[i] = "collected"
  /\ meta_result' = enriched
  /\ meta_pc' = "done"
  /\ UNCHANGED <<meta_mode, meta_target, meta_input, meta_state, meta_fetch,
                 enriched>>
  /\ UNCHANGED <<organiser_vars, tree_vars, validator_vars, snapshot_vars,
                 response_vars, pipeline_vars>>

\* ------------------------------------- models.py, write_json / load_json

\* BookmarkRecord with its metadata
BookmarkRecord(tb, ta, u, lb, la, md) ==
  [title_before |-> tb, title_after |-> ta, url |-> u, location_before |-> lb,
   location_after |-> la, metadata |-> md]

\* Records as the pipeline holds them when it writes a snapshot: parsed and
\* not enriched; enriched and reorganised (title_after as the model gave it);
\* taken over from an earlier snapshot that held an empty tag.  Every writer
\* of metadata.tags (metadata.py:132, organiser.py:139, from_model) stores
\* trimmed tags.
SnapRecordInputs ==
  { BookmarkRecord(<<"a">>, <<>>, "https://one.example", <<"b", "/", "a">>, <<>>,
                   BookmarkMetadata(<<>>, <<>>, <<>>)),
    BookmarkRecord(<<"a">>, <<" ", "B">>, "https://two.example", <<>>, <<"c">>,
                   BookmarkMetadata(<<"t">>, <<"d">>, << <<"t">>, <<"a">> >>)),
    BookmarkRecord(<<"b">>, <<"B">>, "https://one.example", <<"a">>, <<"c", "/", "d">>,
                   BookmarkMetadata(<<>>, <<" ", "d">>, << <<>>, <<"t">> >>)),
    BookmarkRecord(<<>>, <<>>, "https://two.example", <<>>, <<>>,
                   BookmarkMetadata(<<"t">>, <<>>, << <<"a">> >>)),
    BookmarkRecord(<<"b">>, <<"a">>, "https://two.example", <<"b">>, <<"b">>,
                   BookmarkMetadata(<<>>, <<>>, << <<"a">>, <<"a">> >>)),
    BookmarkRecord(<<"a", " ">>, <<>>, "https://one.example", <<"a">>, <<>>,
                   BookmarkMetadata(<<>>, <<>>, << <<"t">> >>)) }

\* Mutant of normalise_tags: empty tags are dropped.
normalise_tags_drops_empty(value) == StripNonEmpty(value)

\* BookmarkMetadataModel._normalise_tags
normalise_tags(value) ==
  IF value # <<>> THEN [i \in 1..Len(value) |-> Strip(value[i])] ELSE <<>>

\* BookmarkMetadataModel(title=..., description=..., tags=...)
BookmarkMetadataModel(t, d, tg) ==
  [title |-> t, description |-> d, tags |-> normalise_tags(tg)]

\* BookmarkRecord.to_model
to_model(r) ==
  [title_before |-> r.title_before,
   title_after |-> r.title_after,
   url |-> r.url,
   location_before |-> r.location_before,
   location_after |-> r.location_after,
   link_metadata |->
     BookmarkMetadataModel(r.metadata.title, r.metadata.description,
                           r.metadata.tags)]

\* model.model_dump(mode="json"): the dict written for one entry
model_dump(m) == m

\* BookmarkEntryModel.model_validate(item) on a dict read back from the file
model_validate(item) ==
  [item EXCEPT !.link_metadata =
     BookmarkMetadataModel(item.link_metadata.title,
                           item.link_metadata.description,
                           item.link_metadata.tags)]

\* BookmarkRecord.from_model
from_model(m) ==
  BookmarkRecord(m.title_before, m.title_after, m.url, m.location_before,
                 m.location_after,
                 BookmarkMetadata(m.link_metadata.title,
                                  m.link_metadata.description,
                                  m.link_metadata.tags))

\* write_json: the list of dicts serialised to path
write_json(recs) == [i \in 1..Len(recs) |-> model_dump(to_model(recs[i]))]

\* load_json
load_json(raw) == [i \in 1..Len(raw) |-> from_model(model_validate(raw[i]))]

SnapshotInit ==
  /\ snap_records \in SeqsOf(SnapRecordInputs, 0, MaxSnapRecords)
  /\ snap_pc = "write"
  /\ snap_file = <<>>
  /\ snap_loaded = <<>>

SnapshotIdle ==
  /\ snap_records = <<>>
  /\ snap_pc = "idle"
  /\ snap_file = <<>>
  /\ snap_loaded = <<>>

WriteJson ==
  /\ snap_pc = "write"
  /\ snap_file' = write_json(snap_records)
  /\ snap_pc' = "load"
  /\ UNCHANGED <<snap_records, snap_loaded>>
  /\ UNCHANGED <<organiser_vars, tree_vars, validator_vars, metadata_vars,
                 response_vars, pipeline_vars>>

LoadJson ==
  /\ snap_pc = "load"
  /\ snap_loaded' = load_json(snap_file)
  /\ snap_pc' = "done"
  /\ UNCHANGED <<snap_records, snap_file>>
  /\ UNCHANGED <<organiser_vars, tree_vars, validator_vars, metadata_vars,
                 response_vars, pipeline_vars>>

\* ------------------------------------ _single_attempt, from the response on

\* the exception _extract_items raises for a response it rejects
extract_items_exception(response) ==
  IF response.kind \in {"nochoices", "nocontent"} THEN "RuntimeError"
  ELSE IF response.kind = "notjson" THEN "JSONDecodeError"
  ELSE "TypeError"

\* chat.completions.create has returned
ResponseInit ==
  /\ completion \in ListResponses \cup MalformedResponses
  /\ resp_pc = "extract"
  /\ raw_items = <<>>
  /\ obj_pos = 0
  /\ validated = <<>>
  /\ resp_error = "none"

ResponseIdle ==
  /\ completion = NoResponse
  /\ resp_pc = "idle"
  /\ raw_items = <<>>
  /\ obj_pos = 0
  /\ validated = <<>>
  /\ resp_error = "none"

\* raw_items = self._extract_items(response)
ExtractItems ==
  /\ resp_pc = "extract"
  /\ IF extract_items_raises(completion)
     THEN /\ resp_pc' = "raised"
          /\ resp_error' = extract_items_exception(completion)
          /\ raw_items' = raw_items
     ELSE /\ resp_pc' = "validate"
          /\ resp_error' = resp_error
          /\ raw_items' = extract_items(completion)
  /\ UNCHANGED <<completion, obj_pos, validated>>
  /\ UNCHANGED <<organiser_vars, tree_vars, validator_vars, metadata_vars,
                 snapshot_vars, pipeline_vars>>

\* Mutant of ValidateObj: an item that does not validate empties the result
\* and ends the loop.
ValidateObjRejectsList ==
  /\ resp_pc = "validate"
  /\ obj_pos < Len(raw_items)
  /\ LET item == validate_item(raw_items[obj_pos + 1])
     IN IF item = <<>>
        THEN validated' = <<>> /\ obj_pos' = Len(raw_items)
        ELSE validated' = validated \o item /\ obj_pos' = obj_pos + 1
  /\ UNCHANGED <<completion, resp_pc, raw_items, resp_error>>
  /\ UNCHANGED <<organiser_vars, tree_vars, validator_vars, metadata_vars,
                 snapshot_vars, pipeline_vars>>

\* One iteration of  for obj in raw_items: the item is appended unless
\* _validate_item returned None.
ValidateObj ==
  /\ resp_pc = "validate"
  /\ obj_pos < Len(raw_items)
  /\ validated' = validated \o validate_item(raw_items[obj_pos + 1])
  /\ obj_pos' = obj_pos + 1
  /\ UNCHANGED <<completion, resp_pc, raw_items, resp_error>>
  /\ UNCHANGED <<organiser_vars, tree_vars, validator_vars, metadata_vars,
                 snapshot_vars, pipeline_vars>>

\* return validated
ReturnValidated ==
  /\ resp_pc = "validate"
  /\ obj_pos = Len(raw_items)
  /\ resp_pc' = "returned"
  /\ UNCHANGED <<completion, raw_items, obj_pos, validated, resp_error>>
  /\ UNCHANGED <<organiser_vars, tree_vars, validator_vars, metadata_vars,
                 snapshot_vars, pipeline_vars>>

\* ------------------------------------------- _run_llm_pipeline (main.py)

\* a record of the organiser as the BookmarkRecord it stands for (of the
\* metadata only the tags are followed through reorganise)
as_bookmark_record(r) ==
  BookmarkRecord(r.title_before, r.title_after, r.url, r.location_before,
                 r.location_after, BookmarkMetadata(<<>>, <<>>, r.tags))

bookmark_records(recs) == [i \in 1..Len(recs) |-> as_bookmark_record(recs[i])]

\* build_tree: root, then the loop over the records
RECURSIVE attach_all(_, _, _)
attach_all(t, recs, position) ==
  IF position > Len(recs) THEN t
  ELSE LET parts == tree_parts(recs[position])
       IN attach_all(add_bookmark(walk(t, <<>>, parts), parts, position),
                     recs, position + 1)

build_tree(recs) == attach_all([q \in {<<>>} |-> RootNode], recs, 1)

\* sorted(items, key=...): stable insertion sort of [key, value] pairs
RECURSIVE sorted_by_key(_)
sorted_by_key(pairs) ==
  IF pairs = <<>> THEN <<>>
  ELSE
    LET done == sorted_by_key(SubSeq(pairs, 1, Len(pairs) - 1))
        item == pairs[Len(pairs)]
        keep == {k \in 1..Len(done) : ~StrLess(item.key, done[k].key)}
        n == Cardinality(keep)
    IN SubSeq(done, 1, n) \o <<item>> \o SubSeq(done, n + 1, Len(done))

\* the <A> element _render_node writes for a record of the node at path
Anchor(record, path) ==
  [href |-> record.url,
   text |-> StrOr(record.title_after, record.title_before),
   folders |-> path]

\* _render_node: the anchors in document order, each with the names of the
\* <H3> folders around it; the sub-folders come first, by lower-cased name,
\* then the node's bookmarks, by lower-cased title
RECURSIVE render_node(_, _, _)
RECURSIVE render_folders(_, _, _, _)
render_node(t, recs, path) ==
  LET node == t[path]
      folders ==
        sorted_by_key([c \in 1..Len(node.children) |->
                         [key |-> Lower(node.children[c]),
                          value |-> node.children[c]]])
      marks ==
        sorted_by_key([b \in 1..Len(node.bookmarks) |->
                         [key |-> StrOr(Lower(recs[node.bookmarks[b]].title_after),
                                        Lower(recs[node.bookmarks[b]].title_before)),
                          value |-> node.bookmarks[b]]])
  IN render_folders(t, recs, path, folders)
       \o [b \in 1..Len(marks) |-> Anchor(recs[marks[b].value], path)]

render_folders(t, recs, path, folders) ==
  IF folders = <<>> THEN <<>>
  ELSE render_node(t, recs, Append(path, Head(folders).value))
         \o render_folders(t, recs, path, Tail(folders))

\* no file at the path
NoFile == [exists |-> FALSE, anchors |-> <<>>]

\* write_bookmark_html: the file written, as the anchors it holds
write_bookmark_html(recs) ==
  [exists |-> TRUE, anchors |-> render_node(build_tree(recs), recs, <<>>)]

\* _record_from_anchor (the URLs followed here are non-empty and trimmed, so
\* no anchor is skipped)
record_from_anchor(anchor) ==
  Record(Strip(anchor.text), anchor.href, Join(StripNonEmpty(anchor.folders)),
         <<>>, <<>>, <<>>)

\* parse_bookmark_html on a file write_bookmark_html wrote
parse_bookmark_html(file) ==
  [i \in 1..Len(file.anchors) |-> record_from_anchor(file.anchors[i])]

\* parse_bookmark_html(paths.input_path): the export the records were parsed
\* from, parsed again
parse_export(recs) ==
  [i \in 1..Len(recs) |->
     Record(recs[i].title_before, recs[i].url, recs[i].location_before,
            <<>>, <<>>, <<>>)]

\* _run_llm_pipeline is entered: json_path holds the snapshot written after
\* the metadata stage, nothing has been written to html_path
PipelineInit ==
  /\ pipe_pc = "reorganise"
  /\ json_file = write_json(bookmark_records(records))
  /\ html_file = NoFile

PipelineIdle ==
  /\ pipe_pc = "idle"
  /\ json_file = <<>>
  /\ html_file = NoFile

\* Mutant of WriteSnapshot: the snapshot is written whether reorganise
\* returned or raised.
WriteSnapshotAfterFailure ==
  /\ pipe_pc = "reorganise"
  /\ pc \in {"done", "failed"}
  /\ json_file' = write_json(bookmark_records(records))
  /\ pipe_pc' = "write_html"
  /\ UNCHANGED html_file
  /\ UNCHANGED <<organiser_vars, tree_vars, validator_vars, metadata_vars,
                 snapshot_vars, response_vars>>

\* Mutant of WriteSnapshot: the snapshot holds the records as they were
\* handed to reorganise.
WriteSnapshotOfInput ==
  /\ pipe_pc = "reorganise"
  /\ pc = "done"
  /\ json_file' = write_json(bookmark_records(input))
  /\ pipe_pc' = "write_html"
  /\ UNCHANGED html_file
  /\ UNCHANGED <<organiser_vars, tree_vars, validator_vars, metadata_vars,
                 snapshot_vars, response_vars>>

\* reorganise has returned: organiser.write_json(records, paths.json_path)
WriteSnapshot ==
  /\ pipe_pc = "reorganise"
  /\ pc = "done"
  /\ json_file' = write_json(bookmark_records(records))
  /\ pipe_pc' = "write_html"
  /\ UNCHANGED html_file
  /\ UNCHANGED <<organiser_vars, tree_vars, validator_vars, metadata_vars,
                 snapshot_vars, response_vars>>

\* write_bookmark_html(records, paths.html_path)
WriteBookmarkHtml ==
  /\ pipe_pc = "write_html"
  /\ html_file' = write_bookmark_html(records)
  /\ pipe_pc' = "validate"
  /\ UNCHANGED json_file
  /\ UNCHANGED <<organiser_vars, tree_vars, validator_vars, metadata_vars,
                 snapshot_vars, response_vars>>

\* the original export is parsed and validate_reorganisation is called with
\* it and html_path (no json_records_path); it parses the reorganised HTML
StartValidation ==
  /\ pipe_pc = "validate"
  /\ original_list' = parse_export(input)
  /\ reorganised_records' = parse_bookmark_html(html_file)
  /\ json_records' = [state |-> "nopath", urls |-> <<>>]
  /\ val_pc' = "counts"
  /\ val_error' = NoValError
  /\ pipe_pc' = "validating"
  /\ UNCHANGED <<json_file, html_file>>
  /\ UNCHANGED <<organiser_vars, tree_vars, metadata_vars, snapshot_vars,
                 response_vars>>

\* validate_reorganisation returned: "Workflow completed successfully"
PipelineCompleted ==
  /\ pipe_pc = "validating"
  /\ val_pc = "ok"
  /\ pipe_pc' = "completed"
  /\ UNCHANGED <<json_file, html_file>>
  /\ UNCHANGED <<organiser_vars, tree_vars, validator_vars, metadata_vars,
                 snapshot_vars, response_vars>>

\* ------------------------------------------------------ specifications

Next ==
  \/ StartBatch
  \/ ClientRaises
  \/ ResponseMalformed
  \/ ResponseNoValid
  \/ ResponseValid
  \/ Merge
  \/ Return

Init ==
  OrganiserInit /\ TreeIdle /\ ValidatorIdle /\ MetadataIdle /\ SnapshotIdle
  /\ ResponseIdle /\ PipelineIdle

\* reorganise on its own
Spec == Init /\ [][Next]_vars

SpecTreeInit ==
  TreeInit /\ OrganiserIdle /\ ValidatorIdle /\ MetadataIdle /\ SnapshotIdle
  /\ ResponseIdle /\ PipelineIdle

SpecTreeNext == AttachRecord

\* build_tree on its own
SpecTree == SpecTreeInit /\ [][SpecTreeNext]_vars

SpecValidateInit ==
  ValidatorInit /\ OrganiserIdle /\ TreeIdle /\ MetadataIdle /\ SnapshotIdle
  /\ ResponseIdle /\ PipelineIdle

SpecValidateNext ==
  \/ AssertCounts
  \/ AssertUrlMultiset
  \/ AssertLocations
  \/ AssertJsonConsistency
  \/ SkipJsonConsistency

\* validate_reorganisation on its own
SpecValidate == SpecValidateInit /\ [][SpecValidateNext]_vars

SpecEnrichInit ==
  MetadataInit /\ OrganiserIdle /\ TreeIdle /\ ValidatorIdle /\ SnapshotIdle
  /\ ResponseIdle /\ PipelineIdle

SpecEnrichNext ==
  \/ StartEnrich
  \/ WorkInline
  \/ Work
  \/ Collect
  \/ ReturnEnriched

\* enrich_with_metadata on its own
SpecEnrich == SpecEnrichInit /\ [][SpecEnrichNext]_vars

SpecSnapshotInit ==
  SnapshotInit /\ OrganiserIdle /\ TreeIdle /\ ValidatorIdle /\ MetadataIdle
  /\ ResponseIdle /\ PipelineIdle

SpecSnapshotNext ==
  \/ WriteJson
  \/ LoadJson

\* write_json followed by load_json
SpecSnapshot == SpecSnapshotInit /\ [][SpecSnapshotNext]_vars

SpecResponseInit ==
  ResponseInit /\ OrganiserIdle /\ TreeIdle /\ ValidatorIdle /\ MetadataIdle
  /\ SnapshotIdle /\ PipelineIdle

SpecResponseNext ==
  \/ ExtractItems
  \/ ValidateObj
  \/ ReturnValidated

\* the validation of one response in _single_attempt
SpecResponse == SpecResponseInit /\ [][SpecResponseNext]_vars

SpecLiveInit == Init /\ Len(records) <= MaxLiveRecords

\* reorganise with every enabled step eventually taken: a call of the client
\* returns or raises, and the code between two calls runs on
SpecLive == SpecLiveInit /\ [][Next]_vars /\ WF_vars(Next)

SpecPipelineInit ==
  OrganiserInit /\ PipelineInit /\ TreeIdle /\ ValidatorIdle /\ MetadataIdle
  /\ SnapshotIdle /\ ResponseIdle

SpecPipelineNext ==
  \/ Next
  \/ WriteSnapshot
  \/ WriteBookmarkHtml
  \/ StartValidation
  \/ AssertCounts
  \/ AssertUrlMultiset
  \/ AssertLocations
  \/ SkipJsonConsistency
  \/ PipelineCompleted

\* _run_llm_pipeline: reorganise, the two artifacts, the validation
SpecPipeline == SpecPipelineInit /\ [][SpecPipelineNext]_vars

\* ------------------------------------------- properties of reorganise

\* A merge has just been applied: pre, accepted and parsed are those of the
\* batch whose chunk is at positions BatchPositions.
JustMerged == pc = "loop" /\ accepted.kind = "list"

\* 1-based positions of the chunk that was just merged
BatchPositions ==
  {i \in 1..Len(records) : i > start - batch_size /\ i <= processed}

\* the validated entries whose index names the record at position i
ValidFor(i) == {k \in 1..Len(parsed) : parsed[k].index = i - 1}

NonBlank(tags) == SelectSeq(tags, LAMBDA t : Strip(t) # <<>>)

\* C1 (as claimed): when all max_attempts attempts of a batch are
\* unsuccessful, _invoke_with_retry fails with LLMInvocationError and that
\* error carries the failure of the final attempt.
C1_TerminalFailureIsLLMInvocationError ==
  (pc = "failed" /\ calls = max_attempts) =>
    /\ raised.type = "LLMInvocationError"
    /\ raised.carries = observed

\* C2: with max_attempts = 3, after a temperature rejection on attempt 1 with
\* custom temperature enabled, every later invocation of the batch is made
\* without temperature and two more attempts are available: the loop goes on
\* to attempts 2 and 3, gives up only after both failed, and a success on
\* either returns the validated entries.
C2_TemperatureCorrectionKeepsBudget ==
  (max_attempts = 3 /\ corrected_on = 1) =>
    /\ ~supports_temperature
    /\ (calls >= 2 => ~last_call.temperature)
    /\ (pc = "attempt" => attempt = calls + 1 /\ attempt \in 2..3)
    /\ (pc = "failed" => calls = 1 + 2)
    /\ (pc = "merge" => calls \in 2..3 /\ parsed # <<>>
                        /\ parsed = single_attempt(accepted))

\* C2 witness: the correction happened on attempt 1 and the third attempt,
\* made without temperature, succeeded.
C2_Witness ==
  /\ corrected_on = 1
  /\ pc = "merge"
  /\ calls = 3
  /\ ~last_call.temperature

\* C3: after the merge of a batch whose response held at least one valid
\* item, every record of the batch with no valid item for its index has its
\* pre-batch title_after, location_after and tags, and every record with a
\* valid item carries that item's values (with the fall-backs); items that
\* were dropped do not stop this.
C3_PartialFailureMerge ==
  JustMerged =>
    \A i \in BatchPositions :
      IF ValidFor(i) = {}
      THEN /\ records[i].title_after = pre[i].title_after
           /\ records[i].location_after = pre[i].location_after
           /\ records[i].tags = pre[i].tags
      ELSE \E k \in ValidFor(i) :
             /\ records[i].title_after =
                  StrOr(parsed[k].title_after, pre[i].title_before)
             /\ records[i].location_after =
                  StrOr(parsed[k].location_after, pre[i].location_before)
             /\ records[i].tags = NonBlank(parsed[k].tags)

\* C3 witness: a response with a dropped item was merged; one record of the
\* batch was updated and another, which had been organised before, kept its
\* values.
C3_Witness ==
  /\ JustMerged
  /\ Len(accepted.items) > Len(parsed)
  /\ \E i \in BatchPositions : ValidFor(i) # {} /\ records[i] # pre[i]
  /\ \E i \in BatchPositions :
       ValidFor(i) = {} /\ pre[i].location_after # <<>> /\ pre[i].tags # <<>>

\* C4: at every point of reorganise, and so in the list it returns, there
\* are as many records as in the input, and the record at each position has
\* the url, title_before and location_before of the input record there.
C4_RecordsPreserved ==
  /\ Len(records) = Len(input)
  /\ \A i \in 1..Len(input) :
       /\ records[i].url = input[i].url
       /\ records[i].title_before = input[i].title_before
       /\ records[i].location_before = input[i].location_before

\* C4 witness: reorganise returned a full list in which every record changed.
C4_Witness ==
  /\ pc = "done"
  /\ Len(records) >= 2
  /\ \A i \in 1..Len(records) : records[i] # input[i]
  /\ \E i, j \in 1..Len(records) : i # j /\ records[i].url = records[j].url

\* total length of the payloads dispatched before batch k
RECURSIVE SentBefore(_)
SentBefore(k) == IF k <= 1 THEN 0 ELSE SentBefore(k - 1) + Len(batches[k - 1])

\* C6: the effective batch size is the configured one, or 1 when that is
\* below 1; every payload holds between 1 and batch_size entries; the
\* payloads taken in order list the indices 0, 1, 2, ... and the entry with
\* index i is the input record at position i; when reorganise returns, every
\* record was sent exactly once.
C6_BatchesCoverOnce ==
  /\ batch_size = (IF configured < 1 THEN 1 ELSE configured)
  /\ \A k \in 1..Len(batches) :
       /\ Len(batches[k]) \in 1..batch_size
       /\ \A j \in 1..Len(batches[k]) :
            LET i == SentBefore(k) + j
            IN /\ i <= Len(input)
               /\ batches[k][j].index = i - 1
               /\ batches[k][j].url = input[i].url
               /\ batches[k][j].title_before = input[i].title_before
               /\ batches[k][j].location_before = input[i].location_before
  /\ (pc = "done" => SentBefore(Len(batches) + 1) = Len(input))

\* C6 witness: reorganise returned after more than one batch, with a
\* configured batch size below 1.
C6_Witness ==
  /\ pc = "done"
  /\ configured = 0
  /\ Len(batches) >= 2

\* the representative title _summarise_structure files a record under
RepresentativeTitle(r) == StrOr(Strip(r.title_after), r.title_before)

\* positions of recs that a structure summary counts
Counted(recs) ==
  {i \in 1..Len(recs) :
     Strip(recs[i].location_after) # <<>> /\ RepresentativeTitle(recs[i]) # <<>>}

CountedAt(recs, path) ==
  {i \in Counted(recs) : Strip(recs[i].location_after) = path}

\* the j-th smallest element of a set of numbers
Nth(S, j) == CHOOSE i \in S : Cardinality({x \in S : x < i}) = j - 1

\* ctx is the structure summary of recs (section 4.1): one entry per
\* non-empty folder, with its bookmark count and up to 5 titles in record
\* order, sorted by lower-cased path
IsSummaryOf(ctx, recs) ==
  /\ {ctx[k].path : k \in DOMAIN ctx} =
       {Strip(recs[i].location_after) : i \in Counted(recs)}
  /\ \A k, l \in DOMAIN ctx : k < l =>
       /\ ctx[k].path # ctx[l].path
       /\ ~StrLess(Lower(ctx[l].path), Lower(ctx[k].path))
  /\ \A k \in DOMAIN ctx :
       LET at == CountedAt(recs, ctx[k].path)
       IN /\ ctx[k].count = Cardinality(at)
          /\ Len(ctx[k].examples) = Min(Cardinality(at), 5)
          /\ \A j \in 1..Len(ctx[k].examples) :
               ctx[k].examples[j] = RepresentativeTitle(recs[Nth(at, j)])

\* C7: while batch k is with the client (or its entries wait to be merged),
\* every earlier batch has been merged and nothing else: the processed
\* records are exactly the records sent in batches 0..k-1, they are in their
\* merged state, and the structure summary sent with batch k is the summary
\* of exactly those records (empty for the first batch).
C7_SequentialBatches ==
  pc \in {"attempt", "merge"} =>
    /\ Len(batches) >= 1
    /\ start = SentBefore(Len(batches))
    /\ processed = start
    /\ \A i \in 1..start : records[i] = pre[i]
    /\ IsSummaryOf(structure_context, SubSeq(records, 1, start))
    /\ (Len(batches) = 1 => structure_context = <<>>)

\* C7 witness: the second batch is dispatched with a summary of the first
\* batch's merged record.
C7_Witness ==
  /\ pc = "attempt"
  /\ Len(batches) = 2
  /\ structure_context # <<>>
  /\ records[1] # input[1]
  /\ structure_context[1].path = Strip(records[1].location_after)

\* C8: a successful attempt ends the retry loop with exactly the entries
\* validated from its response, and it is the last invocation of the batch
\* (an invocation after the first is only ever made after a failed one);
\* until the merge no attempt has changed any record.
C8_SuccessEndsRetryLoop ==
  /\ (pc = "merge" =>
        /\ parsed # <<>>
        /\ parsed = single_attempt(accepted)
        /\ calls = attempt)
  /\ (JustMerged => calls = attempt)
  /\ ((pc = "attempt" /\ calls > 0) => observed.kind \in {"novalid", "exception"})
  /\ (pc \in {"attempt", "merge", "failed"} => records = pre)

\* C8 witness: the third attempt of a second batch succeeded after two
\* failed ones.
C8_Witness ==
  /\ pc = "merge"
  /\ calls = 3
  /\ Len(batches) = 2
  /\ records[1] # input[1]

\* the entry index_map holds for the record at position i
EntryFor(i) == parsed[CHOOSE k \in ValidFor(i) : \A l \in ValidFor(i) : l <= k]

\* C9 (as claimed): the merge sets title_after and location_after from the
\* entry with the fall-backs to title_before and location_before, and the
\* record's tags are the entry's tags verbatim.
C9_MergeTagsVerbatim ==
  JustMerged =>
    \A i \in BatchPositions : ValidFor(i) # {} =>
      /\ records[i].title_after =
           StrOr(EntryFor(i).title_after, pre[i].title_before)
      /\ records[i].location_after =
           StrOr(EntryFor(i).location_after, pre[i].location_before)
      /\ records[i].tags = EntryFor(i).tags

\* C9 (amended): as claimed for title_after and location_after; the record's
\* tags become the entry's non-empty tags in the entry's order (empty tags
\* are left out, previous tags are not kept).
C9_MergeTagsNonEmpty ==
  JustMerged =>
    \A i \in BatchPositions : ValidFor(i) # {} =>
      /\ records[i].title_after =
           StrOr(EntryFor(i).title_after, pre[i].title_before)
      /\ records[i].location_after =
           StrOr(EntryFor(i).location_after, pre[i].location_before)
      /\ records[i].tags = SelectSeq(EntryFor(i).tags, LAMBDA t : t # <<>>)

\* C9 witness: one record took title and location from its "before" values
\* and lost its previous tags; another got an entry with an empty tag.
C9_Witness ==
  /\ JustMerged
  /\ \E i \in BatchPositions :
       /\ ValidFor(i) # {}
       /\ EntryFor(i).title_after = <<>>
       /\ EntryFor(i).location_after = <<>>
       /\ pre[i].tags # <<>>
       /\ records[i].tags = <<>>
       /\ records[i].title_after = pre[i].title_before
  /\ \E i \in BatchPositions :
       /\ ValidFor(i) # {}
       /\ \E t \in 1..Len(EntryFor(i).tags) : EntryFor(i).tags[t] = <<>>
       /\ Len(records[i].tags) = 2

\* ------------------------------------------- properties of build_tree

\* paths of the nodes whose bookmarks hold the record at position j
HolderPaths(j) ==
  {q \in DOMAIN tree :
     \E b \in 1..Len(tree[q].bookmarks) : tree[q].bookmarks[b] = j}

\* section 4.6: location_after if non-empty, else location_before, and the
\* synthetic segment if both are empty
EffectiveLocation(r) ==
  IF r.location_after # <<>> THEN r.location_after
  ELSE IF r.location_before # <<>> THEN r.location_before
  ELSE Unsorted

Occ(u, recs) == Cardinality({i \in 1..Len(recs) : recs[i].url = u})

\* the URL check has run (the count check before it passed)
UrlCheckDone ==
  \/ val_pc \in {"locations", "json", "ok"}
  \/ val_pc = "error" /\ val_error.type # "CountMismatch"

\* C10: for lists of equal length the URL check raises the URL mismatch
\* exactly when some URL occurs a different number of times in the two
\* lists, whatever their order; the error then lists for each URL that the
\* output lacks how many are missing and for each it has too often how many
\* are extra.
C10_UrlMultisetCheck ==
  (UrlCheckDone /\ Len(original_list) = Len(reorganised_records)) =>
    LET more(a, b) == {u \in ValUrlInputs : Occ(u, a) > Occ(u, b)}
    IN /\ (val_error.type = "UrlMismatch") <=>
            (\E u \in ValUrlInputs :
               Occ(u, original_list) # Occ(u, reorganised_records))
       /\ (val_error.type = "UrlMismatch") =>
            /\ DOMAIN val_error.missing = more(original_list, reorganised_records)
            /\ \A u \in more(original_list, reorganised_records) :
                 val_error.missing[u] =
                   Occ(u, original_list) - Occ(u, reorganised_records)
            /\ DOMAIN val_error.extra = more(reorganised_records, original_list)
            /\ \A u \in more(reorganised_records, original_list) :
                 val_error.extra[u] =
                   Occ(u, reorganised_records) - Occ(u, original_list)

\* C10 witness: a URL the original holds twice is in the output once, in
\* lists of equal length that hold the same set of URLs, and the URL mismatch
\* is raised.
C10_Witness ==
  /\ val_error.type = "UrlMismatch"
  /\ Len(original_list) = Len(reorganised_records)
  /\ {original_list[i].url : i \in 1..Len(original_list)} =
       {reorganised_records[i].url : i \in 1..Len(reorganised_records)}
  /\ \E u \in ValUrlInputs :
       Occ(u, original_list) = 2 /\ Occ(u, reorganised_records) = 1

\* the location check has run (the count and URL checks before it passed)
LocationCheckDone ==
  \/ val_pc \in {"json", "ok"}
  \/ val_pc = "error" /\ val_error.type \notin {"CountMismatch", "UrlMismatch"}

\* positions of the output records with no location at all
BothEmpty ==
  {i \in 1..Len(reorganised_records) :
     /\ reorganised_records[i].location_after = <<>>
     /\ reorganised_records[i].location_before = <<>>}

\* C11: the location check raises the empty-location error exactly when some
\* output record has an empty location_after and an empty location_before; a
\* record with an empty location_after and a non-empty location_before does
\* not make it fail.
C11_EmptyLocationIffBothEmpty ==
  LocationCheckDone => (val_error.type = "EmptyLocation" <=> BothEmpty # {})

\* C11 witness: the empty-location error is raised for a list that also holds
\* a record with an empty location_after and a non-empty location_before.
C11_Witness ==
  /\ val_error.type = "EmptyLocation"
  /\ \E i \in 1..Len(reorganised_records) :
       /\ reorganised_records[i].location_after = <<>>
       /\ reorganised_records[i].location_before # <<>>

\* validate_reorganisation has returned or raised
ValidationEnded == val_pc \in {"ok", "error"}

SameLength == Len(original_list) = Len(reorganised_records)

SameUrlMultiset ==
  \A u \in ValUrlInputs : Occ(u, original_list) = Occ(u, reorganised_records)

\* C12: validate_reorganisation returns normally only with equal lengths,
\* equal URL multisets and no record without any location; when it ends and
\* one of these fails it has raised, and the error is that of the first
\* failing check in the order count, URL multiset, empty location; an error of
\* the snapshot stage is raised only when these three checks passed.
C12_FirstFailingCheckReported ==
  ValidationEnded =>
    /\ (val_pc = "ok" => SameLength /\ SameUrlMultiset /\ BothEmpty = {})
    /\ (~SameLength => val_pc = "error" /\ val_error.type = "CountMismatch")
    /\ ((SameLength /\ ~SameUrlMultiset) =>
          val_pc = "error" /\ val_error.type = "UrlMismatch")
    /\ ((SameLength /\ SameUrlMultiset /\ BothEmpty # {}) =>
          val_pc = "error" /\ val_error.type = "EmptyLocation")
    /\ ((SameLength /\ SameUrlMultiset /\ BothEmpty = {}) =>
          val_error.type \notin {"CountMismatch", "UrlMismatch", "EmptyLocation"})

\* C12 witness: the lengths differ, the shorter output also lacks a location
\* and the snapshot is not a list of entries; the count mismatch is raised.
C12_Witness ==
  /\ val_pc = "error"
  /\ val_error.type = "CountMismatch"
  /\ Len(reorganised_records) >= 1
  /\ BothEmpty # {}
  /\ json_records.state = "invalid"

\* C13 (as claimed): once the count, URL and location checks passed, a
\* snapshot that is not a list of entries raises the invalid-snapshot error,
\* one of another length than the output the count mismatch, one with another
\* URL multiset the URL mismatch, and any other snapshot, whatever its order,
\* lets validation succeed; with no path or no file validation succeeds.
C13_SnapshotChecks ==
  (ValidationEnded /\ SameLength /\ SameUrlMultiset /\ BothEmpty = {}) =>
    IF json_records.state \in {"nopath", "nofile"} THEN val_pc = "ok"
    ELSE IF json_records.state = "invalid"
    THEN val_pc = "error" /\ val_error.type = "InvalidSnapshot"
    ELSE IF Len(json_records.urls) # Len(reorganised_records)
    THEN val_pc = "error" /\ val_error.type = "CountMismatch"
    ELSE IF \E u \in ValUrlInputs :
              Cardinality({i \in 1..Len(json_records.urls) : json_records.urls[i] = u})
                # Occ(u, reorganised_records)
    THEN val_pc = "error" /\ val_error.type = "UrlMismatch"
    ELSE val_pc = "ok"

\* ---------------------------------- properties of enrich_with_metadata

\* C14: whatever the order in which the workers finish and whichever fetches
\* fail, the list enrich_with_metadata returns is as long as its input and
\* its i-th element is the i-th input record; a record whose fetch failed
\* (no usable response, or an exception) has the metadata it had.  The call
\* has no step that raises.
C14_EnrichKeepsOrder ==
  /\ Len(meta_target) = Len(meta_input)
  /\ (meta_pc = "done" =>
        /\ Len(meta_result) = Len(meta_input)
        /\ \A i \in 1..Len(meta_input) : meta_result[i] = i)
  /\ \A i \in 1..Len(meta_input) :
       meta_fetch[i] \in {"unreachable", "raises"} =>
         meta_target[i] = meta_input[i]

\* C14 witness: in the pool the last record's result is collected while the
\* first record is still being worked on, and a record that had tags of its
\* own has failed to fetch with an exception.
C14_Witness ==
  /\ meta_pc = "pool"
  /\ meta_state[1] = "pending"
  /\ meta_state[Len(meta_input)] = "collected"
  /\ enriched[Len(meta_input)] = Len(meta_input)
  /\ meta_target[Len(meta_input)] # meta_input[Len(meta_input)]
  /\ \E i \in 1..Len(meta_input) :
       /\ meta_fetch[i] = "raises"
       /\ meta_input[i].metadata.tags # <<>>

\* a record has metadata of its own
HasMetadata(r) ==
  \/ r.metadata.title # <<>>
  \/ r.metadata.description # <<>>
  \/ r.metadata.tags # <<>>

\* C15: once its _work has run, in ONLY_MISSING mode a record that had a
\* metadata title, description or tags was not fetched and has the metadata
\* it had, and a record with none of them was fetched and carries what the
\* fetch gave; in ALL mode every record was fetched.
C15_OnlyMissingSkipsExisting ==
  \A i \in 1..Len(meta_input) :
    meta_state[i] # "pending" =>
      IF meta_mode = "only-missing" /\ HasMetadata(meta_input[i])
      THEN meta_fetch[i] = "skipped" /\ meta_target[i] = meta_input[i]
      ELSE /\ meta_fetch[i] = fetch(meta_input[i].url).kind
           /\ (meta_fetch[i] = "page" =>
                 LET page == fetch(meta_input[i].url)
                 IN /\ meta_target[i].metadata.title = page.title
                    /\ (page.has_keywords =>
                          meta_target[i].metadata.tags = << <<"k">>, <<"a">> >>))

\* C15 witness: in ONLY_MISSING mode a record with tags only was skipped and
\* a record without metadata was fetched and populated.
C15_Witness ==
  /\ meta_pc = "done"
  /\ meta_mode = "only-missing"
  /\ \E i \in 1..Len(meta_input) :
       /\ meta_input[i].metadata.title = <<>>
       /\ meta_input[i].metadata.tags # <<>>
       /\ meta_fetch[i] = "skipped"
  /\ \E i \in 1..Len(meta_input) :
       /\ ~HasMetadata(meta_input[i])
       /\ meta_fetch[i] = "page"
       /\ meta_target[i].metadata.tags # <<>>

\* ------------------------------- properties of write_json / load_json

TemperatureRejected ==
  /\ observed.kind = "exception"
  /\ observed.exc.temperature
  /\ observed.exc.unsupported
  /\ last_call.made
  /\ last_call.temperature

\* the latest attempt failed with an error whose message holds "model" and
\* "not found" / "does not exist", and was not a temperature rejection
ModelNotFound ==
  /\ observed.kind = "exception"
  /\ observed.exc.model
  /\ observed.exc.notfound
  /\ ~TemperatureRejected

\* C17 (as claimed): after a temperature rejection on any attempt, the last
\* included, custom temperature is disabled and a further invocation for the
\* batch follows (the retry loop is at its next attempt).
C17_TemperatureRejectionRetried ==
  TemperatureRejected => (~supports_temperature /\ pc = "attempt")

\* C18: the custom-temperature flag starts enabled and is never re-enabled;
\* the step that disables it is an invocation that failed with a temperature
\* rejection; every invocation carries a temperature exactly when the flag
\* is enabled at the time, so all invocations before the rejection carry one
\* and none after it does, in this batch and in later ones.
C18_TemperatureFlagMonotone ==
  /\ supports_temperature = TRUE
  /\ [][/\ supports_temperature' => supports_temperature
        /\ (supports_temperature /\ ~supports_temperature') =>
             /\ calls' = calls + 1
             /\ observed'.kind = "exception"
             /\ observed'.exc.temperature
             /\ observed'.exc.unsupported
        /\ calls' = calls + 1 =>
             /\ last_call'.made
             /\ last_call'.temperature = supports_temperature]_vars

\* C18 witness: an invocation of the second batch is made without temperature
\* after the flag was disabled during the first batch.
C18_Witness ==
  /\ Len(batches) = 2
  /\ calls >= 1
  /\ corrected_on = 0
  /\ ~last_call.temperature
  /\ ~supports_temperature

\* C19: when attempt 1 of a batch fails with a model-not-found error that is
\* no temperature rejection and the fallback model differs from the active
\* one, the fallback becomes the active model, the wait is backoff_seconds *
\* 1 and attempt 2 follows; the active model only ever changes in such a
\* step, from the primary model to the fallback, so it changes at most once
\* and never goes back.
C19_FallbackSwitchOnce ==
  /\ []((calls = 1 /\ ModelNotFound /\ fallback_model # last_call.model) =>
          /\ model = fallback_model
          /\ wait = Backoff(1)
          /\ pc = "attempt"
          /\ attempt = 2)
  /\ []((last_call.made /\ last_call.model # PrimaryModel) =>
          model # PrimaryModel)
  /\ [][model' # model =>
          /\ model = PrimaryModel
          /\ model' = fallback_model
          /\ attempt = 1
          /\ calls' = 1
          /\ observed'.kind = "exception"
          /\ observed'.exc.model
          /\ observed'.exc.notfound]_vars

\* C19 witness: the second attempt of a second batch is made with the
\* fallback model, to which the first batch switched.
C19_Witness ==
  /\ Len(batches) = 2
  /\ calls = 2
  /\ last_call.model = fallback_model
  /\ model = fallback_model
  /\ fallback_model # PrimaryModel

\* C20: a model-not-found error on attempt n >= 2 that is no temperature
\* rejection is followed by the generic wait backoff_seconds * n and leaves
\* the active model as it was; from attempt 2 on the active model is the one
\* the latest invocation used, so it does not change in the rest of the batch.
C20_NoSwitchAfterFirstAttempt ==
  /\ (calls >= 2 /\ ModelNotFound) =>
       /\ wait = Backoff(calls)
       /\ model = last_call.model
  /\ (calls >= 2 => model = last_call.model)

\* C20 witness: after a temperature correction on attempt 1, attempt 2 fails
\* with model-not-found while a different fallback is configured, and the
\* primary model stays active.
C20_Witness ==
  /\ corrected_on = 1
  /\ calls = 2
  /\ ModelNotFound
  /\ fallback_model # model
  /\ model = PrimaryModel
  /\ wait = Backoff(2)

\* ------------------------------------------- waits between the attempts

\* C21: an attempt n < max_attempts that returns a list with no valid item
\* records the "no valid items" failure and is followed by a wait of
\* backoff_seconds * n before attempt n + 1, as after an exception.
C21_NoValidItemsBacksOff ==
  (pc = "attempt" /\ observed = NoValidItems) =>
    /\ last_error = "novalid"
    /\ attempt = calls + 1
    /\ wait = Backoff(calls)

\* the latest attempt raised, and neither the temperature correction nor the
\* switch to the fallback model handled the error
GenericFailure ==
  /\ observed.kind = "exception"
  /\ ~TemperatureRejected
  /\ model = last_call.model

\* C22: after a generic failure of attempt n the wait is backoff_seconds * n;
\* after a temperature correction the only wait is the fixed pause, with no
\* scaled backoff.
C22_WaitFollowsFailureKind ==
  /\ GenericFailure => wait = Backoff(calls)
  /\ TemperatureRejected => wait = Pause

\* C22 witness: attempt 1 was corrected for temperature (pause only) and
\* attempt 2 then failed with a generic error, followed by the wait
\* backoff_seconds * 2.
C22_Witness ==
  /\ corrected_on = 1
  /\ calls = 2
  /\ GenericFailure
  /\ observed.exc = GenericExc
  /\ wait = Backoff(2)
  /\ pc = "attempt"

\* ------------------------------------ properties of response validation

\* an element of the response list that is a mapping, has the keys index and
\* location_after, and passes the entry schema
Conforming(it) ==
  it.isdict /\ it.has_index /\ it.has_location /\ it.index_int

ConformingOf(items) == SelectSeq(items, Conforming)

\* C23: the validation raises only for a response that holds no JSON list
\* (for a response that carries text: the text is not valid JSON or its root
\* is not a list); for a list, the entries returned are those of the
\* conforming elements, one each and in order, whatever the other elements
\* are, so the result is empty only when no element conforms.
C23_BadItemsDroppedIndividually ==
  /\ resp_pc = "raised" =>
       /\ completion.kind # "list"
       /\ completion.kind \notin {"nochoices", "nocontent"} =>
            /\ completion.kind \in {"notjson", "notlist"}
            /\ resp_error \in {"JSONDecodeError", "TypeError"}
  /\ (resp_pc \in {"validate", "returned"}) => completion.kind = "list"
  /\ resp_pc = "returned" =>
       LET kept == ConformingOf(completion.items)
       IN /\ Len(validated) = Len(kept)
          /\ \A k \in 1..Len(kept) :
               /\ validated[k].index = kept[k].index
               /\ validated[k].title_after = kept[k].title_after
          /\ (validated = <<>>) <=>
               ~(\E i \in 1..Len(completion.items) : Conforming(completion.items[i]))

\* C23 witness: a list whose first element is not a mapping and whose second
\* element conforms has been validated, and the one entry is returned.
C23_Witness ==
  /\ resp_pc = "returned"
  /\ Len(completion.items) = 2
  /\ ~completion.items[1].isdict
  /\ Conforming(completion.items[2])
  /\ Len(validated) = 1
  /\ validated[1].index = completion.items[2].index

\* C24: every entry the validation keeps has a non-empty location_after of
\* at most MAX_FOLDER_DEPTH segments, each trimmed and non-blank; an item
\* whose location_after is empty, blank or without segments is dropped.
C24_ValidatedLocationNonEmpty ==
  \A k \in 1..Len(validated) :
    LET parts == Split(validated[k].location_after)
    IN /\ validated[k].location_after # <<>>
       /\ Len(parts) <= MAX_FOLDER_DEPTH
       /\ \A j \in 1..Len(parts) : parts[j] # <<>> /\ Strip(parts[j]) = parts[j]

\* ------------------------------------------------- the frame of the merge

\* C25: the merge of a batch leaves every record outside the batch's
\* positions as it was when the batch was dispatched, whatever indices the
\* validated entries carry, so records of earlier batches keep their merged
\* state; a record of a batch that has not been merged yet is still the
\* input record.
C25_MergeStaysInBatchRange ==
  /\ JustMerged =>
       \A i \in 1..Len(records) : i \notin BatchPositions => records[i] = pre[i]
  /\ \A i \in 1..Len(records) : i > processed => records[i] = input[i]

\* C25 witness: with one record per batch the second batch was merged from a
\* response holding a valid entry for it and a valid entry with the index of
\* the first batch's record, which would have changed that record.
C25_Witness ==
  /\ JustMerged
  /\ batch_size = 1
  /\ Len(batches) = 2
  /\ \E k \in 1..Len(parsed) :
       parsed[k].index = 0 /\ merge_entry(records[1], parsed[k]) # records[1]
  /\ \E k \in 1..Len(parsed) : parsed[k].index = 1
  /\ records[2] # pre[2]
  /\ records[1] = pre[1]

\* ------------------------------------------------ the bound of the retries

\* C29: in every batch at most max_attempts invocations of the client are
\* made, whatever each of them returns or raises (attempt n is reached after
\* n - 1 invocations, a temperature correction and a model switch included);
\* and the retry loop ends: an attempt under way leads to the merge of the
\* batch or to the terminal failure.
C29_RetryLoopBounded ==
  /\ [](/\ calls <= max_attempts
        /\ (pc = "attempt" => attempt = calls + 1 /\ attempt <= max_attempts)
        /\ (pc = "failed" => calls = max_attempts))
  /\ [][pc = "attempt" => calls' = calls + 1]_vars
  /\ ((pc = "attempt") ~> (pc \in {"merge", "failed"}))

\* C29 witness: the third invocation of a batch failed after a temperature
\* correction on the first and a generic failure on the second, and the loop
\* has ended with the terminal failure.
C29_Witness ==
  /\ pc = "failed"
  /\ calls = max_attempts
  /\ corrected_on = 1
  /\ supports_temperature = FALSE

\* ------------------------------------ properties of build_tree, continued

\* C27: a record is attached under the folder Unsorted exactly when neither
\* its location_after nor its location_before holds a non-blank segment; a
\* record whose location_after holds none and whose location_before holds
\* one or more is attached under the path of its location_before.
C27_UnsortedIffBothEmpty ==
  \A j \in 1..tree_done :
    LET after == Segments(tree_records[j].location_after)
        before == Segments(tree_records[j].location_before)
    IN /\ (HolderPaths(j) = {<<Unsorted>>}) <=> (after = <<>> /\ before = <<>>)
       /\ (after = <<>> /\ before # <<>>) =>
            HolderPaths(j) = {Take(before, MAX_FOLDER_DEPTH)}

\* every (node, slot) that holds a bookmark
BookmarkSlots ==
  UNION {{<<q, b>> : b \in 1..Len(tree[q].bookmarks)} : q \in DOMAIN tree}

\* C30: every record attached so far is held in exactly one slot of one
\* node, and that node is not the root; there are as many bookmarks in the
\* tree as records attached, equal URLs or not; no node lists a child name
\* twice, and the children listed are the nodes there are.
C30_OneNodePerRecord ==
  /\ \A j \in 1..tree_done :
       /\ Cardinality({s \in BookmarkSlots : tree[s[1]].bookmarks[s[2]] = j}) = 1
       /\ Cardinality(HolderPaths(j)) = 1
       /\ <<>> \notin HolderPaths(j)
  /\ Cardinality(BookmarkSlots) = tree_done
  /\ tree[<<>>].bookmarks = <<>>
  /\ \A q \in DOMAIN tree :
       /\ \A c, d \in 1..Len(tree[q].children) :
            tree[q].children[c] = tree[q].children[d] => c = d
       /\ \A c \in 1..Len(tree[q].children) :
            Append(q, tree[q].children[c]) \in DOMAIN tree
       /\ q # <<>> =>
            \E c \in 1..Len(tree[SubSeq(q, 1, Len(q) - 1)].children) :
              tree[SubSeq(q, 1, Len(q) - 1)].children[c] = q[Len(q)]

\* C30 witness: two records with the same URL and the same folder were
\* attached, and the one node of that folder holds both.
C30_Witness ==
  /\ tree_done = 2
  /\ tree_records[1].url = tree_records[2].url
  /\ HolderPaths(1) = HolderPaths(2)
  /\ \E q \in DOMAIN tree : q # <<>> /\ tree[q].bookmarks = <<1, 2>>

\* ------------------------------------------ properties of the LLM pipeline

\* the last attempt the retry loop allows has failed
RetriesExhausted == calls = max_attempts /\ observed.kind # "none"

\* C26: when the last attempt of a batch has failed, reorganise ends with the
\* error raised to the pipeline; the records of the failing batch and of the
\* later batches are the input records; the pipeline has written nothing to
\* html_path, has left the snapshot as it found it and has not started the
\* validation; and nothing runs after that: no later batch is dispatched, no
\* artifact is written, no check is made.
C26_TerminalFailureAbortsRun ==
  /\ [](/\ RetriesExhausted <=> pc = "failed"
        /\ pc = "failed" =>
             /\ raised.type # "none"
             /\ \A i \in 1..Len(records) : i > start => records[i] = input[i]
             /\ start < Len(records)
             /\ pipe_pc = "reorganise"
             /\ html_file = NoFile
             /\ json_file = write_json(bookmark_records(input))
             /\ val_pc = "idle")
  /\ [][pc # "failed"]_vars

\* C26 witness: the first batch was merged and changed its record, and the
\* second batch has failed for good.
C26_Witness ==
  /\ pc = "failed"
  /\ Len(records) = 2
  /\ start = 1
  /\ records[1] # input[1]
  /\ records[2] = input[2]
  /\ html_file = NoFile

\* C28: until reorganise has returned, html_path is not written and
\* json_path holds the snapshot of the records as they came in; from the
\* start of the validation on, whatever its outcome, json_path holds the
\* snapshot of the records reorganise returned and html_path holds one
\* anchor for each of them, under the folders and with the title its
\* reorganised values give.
C28_ArtifactsBeforeValidation ==
  /\ pc # "done" =>
       /\ html_file = NoFile
       /\ json_file = write_json(bookmark_records(input))
       /\ val_pc = "idle"
  /\ val_pc # "idle" =>
       /\ pc = "done"
       /\ pipe_pc \in {"validating", "completed"}
       /\ Len(json_file) = Len(records)
       /\ \A i \in 1..Len(records) :
            /\ json_file[i].url = records[i].url
            /\ json_file[i].title_after = records[i].title_after
            /\ json_file[i].location_after = records[i].location_after
            /\ json_file[i].link_metadata.tags = records[i].tags
       /\ html_file.exists
       /\ Len(html_file.anchors) = Len(records)
       /\ \A i \in 1..Len(records) :
            Cardinality({a \in 1..Len(html_file.anchors) :
                           /\ html_file.anchors[a].href = records[i].url
                           /\ html_file.anchors[a].folders = tree_parts(records[i])
                           /\ html_file.anchors[a].text =
                                StrOr(records[i].title_after, records[i].title_before)})
              >= Cardinality({j \in 1..Len(records) : records[j] = records[i]})
       /\ reorganised_records = parse_bookmark_html(html_file)

\* C28 witness: the validation has run to its end on the artifacts of two
\* records that reorganise changed.
C28_Witness ==
  /\ val_pc = "ok"
  /\ Len(records) = 2
  /\ \A i \in 1..2 : records[i] # input[i]
  /\ json_file # write_json(bookmark_records(input))
  /\ Len(html_file.anchors) = 2

====
